---------------------------- MODULE Spec2Model ----------------------------
(***************************************************************************)
(* A model of the trading journal: the store context (in-memory trade      *)
(* collection mirrored from an id-keyed persisted store), the pages that   *)
(* drive it (Brokers, TradeHistory) and the aggregation functions          *)
(* (getMetrics, groupedTrades).                                            *)
(*                                                                         *)
(* Conventions.  A JavaScript number is modelled as an integer (prices and *)
(* pnl in the smallest currency unit); a quotient is kept as the pair      *)
(* <<numerator, denominator>> the code divides.  An ISO date string is the *)
(* instant it denotes; the calendar day of an instant is instant \div      *)
(* DayLen.  An optional field that is absent is the empty string.  An id   *)
(* string is the record of the parts the code concatenates.                *)
(***************************************************************************)
EXTENDS Integers, Sequences, FiniteSets, TLC

VARIABLES
    trades,        \* Store: useState<Trade[]>        (in-memory collection)
    brokers,       \* Store: useState<BrokerStatus[]> (by broker name)
    settings,      \* Store: settings.googleSheetUrl  ("" when not configured)
    isLoading,     \* Store: useState(true)
    db,            \* persisted object store 'trades', keyed by id
    dbBrokers,     \* persisted object store 'brokers', keyed by name
    dbSettings,    \* persisted settings.googleSheetUrl
    ops,           \* trade-store calls in flight, in call order
    tasks,         \* external calls in flight (AI, broker API, file read)
    posts,         \* webhook POSTs attempted so far (ids of each payload)
    ai,            \* geminiService: a client exists (API_KEY was set)
    now,           \* Date.now()
    page,          \* the mounted page ("api": the store functions alone)
    ui,            \* local state of the mounted page
    outcome,       \* the last settled store call, as its caller observed it
    cmds,          \* user commands issued so far
    view           \* result of the last aggregation pass

vars == <<trades, brokers, settings, isLoading, db, dbBrokers, dbSettings,
          ops, tasks, posts, ai, now, page, ui, outcome, cmds, view>>

-----------------------------------------------------------------------------
(* Bounds of the model *)

\* User gestures per session on the Brokers and NewTrade pages, and on the
\* TradeHistory page; calls of the store functions per session; readings of
\* the clock; trades returned by one sync.
MaxCmds == 3
MaxEdits == 5
MaxCalls == 3
MaxClock == 1
MaxSyncCount == 1
\* Size of the trade collections the aggregation functions are applied to.
MaxLen == 3

-----------------------------------------------------------------------------
(* Generic helpers *)

Range(s) == {s[i] : i \in 1..Len(s)}

RECURSIVE SumSeq(_)
SumSeq(s) == IF s = <<>> THEN 0 ELSE s[1] + SumSeq(Tail(s))

RemoveAt(s, i) == SubSeq(s, 1, i - 1) \o SubSeq(s, i + 1, Len(s))

-----------------------------------------------------------------------------
(* types.ts: BrokerName, Trade, BrokerStatus *)

BrokerNames == {"Zerodha", "Fyers", "Dhan", "Angel One"}

\* The brokers the user operates on in the model.
ActedBrokers == {"Zerodha", "Fyers"}

NoSync == -1

\* apiConfig: "none" is undefined, "empty" is {accessToken: ''}, "token" is
\* {accessToken: <non-empty>}.
ApiConfigs == {"none", "empty", "token"}

BrokerStatus(n, c, l, a) ==
    [name |-> n, isConnected |-> c, lastSync |-> l, apiConfig |-> a]

INITIAL_BROKERS_DEFAULT ==
    << BrokerStatus("Zerodha", FALSE, NoSync, "none"),
       BrokerStatus("Fyers", FALSE, NoSync, "none"),
       BrokerStatus("Dhan", FALSE, NoSync, "none"),
       BrokerStatus("Angel One", FALSE, NoSync, "none") >>

\* Instants per calendar day.
DayLen == 2

DayOf(date) == date \div DayLen

\* id strings: Date.now().toString(), `imported-${Date.now()}-${index}`,
\* `api-${brokerName}-${Date.now()}-${i}`, and ids stored by earlier sessions.
ManualId(t) == [k |-> "manual", b |-> "", t |-> t, i |-> 0]
ImportedId(t, i) == [k |-> "imported", b |-> "", t |-> t, i |-> i]
ApiId(b, t, i) == [k |-> "api", b |-> b, t |-> t, i |-> i]
SeedId(i) == [k |-> "seed", b |-> "", t |-> 0, i |-> i]
NoId == [k |-> "null", b |-> "", t |-> 0, i |-> 0]

Trade(id, date, symbol, broker, entry, exit, qty, pnl, segment, conf, strategy, notes, mistake, analysis) ==
    [id |-> id, date |-> date, symbol |-> symbol, broker |-> broker,
     entryPrice |-> entry, exitPrice |-> exit, quantity |-> qty, pnl |-> pnl,
     segment |-> segment, productType |-> "", confidence |-> conf,
     strategy |-> strategy, notes |-> notes, mistake |-> mistake,
     aiAnalysis |-> analysis]

Ids(s) == {s[i].id : i \in 1..Len(s)}

-----------------------------------------------------------------------------
(* Array.prototype.sort((a, b) => new Date(b.date) - new Date(a.date)):     *)
(* a stable sort, descending by instant.                                   *)

RECURSIVE InsertByDateDesc(_, _)
InsertByDateDesc(sorted, t) ==
    IF sorted = <<>> THEN <<t>>
    ELSE IF sorted[1].date >= t.date
         THEN <<sorted[1]>> \o InsertByDateDesc(Tail(sorted), t)
         ELSE <<t>> \o sorted

RECURSIVE SortFrom(_, _)
SortFrom(acc, s) ==
    IF s = <<>> THEN acc ELSE SortFrom(InsertByDateDesc(acc, s[1]), Tail(s))

SortByDateDesc(s) == SortFrom(<<>>, s)

-----------------------------------------------------------------------------
(* db.ts: the object stores 'trades' (keyPath 'id') and 'brokers' (keyPath   *)
(* 'name').  A store is the function from the keys it holds to the records. *)

EmptyStore == [x \in {} |-> x]

\* store.put(record): insert, or replace the record with the same key.
DbPut(d, key, rec) ==
    [x \in DOMAIN d \cup {key} |-> IF x = key THEN rec ELSE d[x]]

\* trades.forEach(trade => store.put(trade)) in one transaction.
RECURSIVE DbPutAll(_, _)
DbPutAll(d, recs) ==
    IF recs = <<>> THEN d
    ELSE DbPutAll(DbPut(d, recs[1].id, recs[1]), Tail(recs))

\* Key order of the id strings: digits sort before letters, then
\* "api-..." < "imported-..." < ids of earlier sessions.
KindRank(k) ==
    CASE k = "manual" -> 0 [] k = "api" -> 1 [] k = "imported" -> 2
      [] OTHER -> 3

BrokerRank(b) ==
    CASE b = "" -> 0 [] b = "Angel One" -> 1 [] b = "Dhan" -> 2
      [] b = "Fyers" -> 3 [] OTHER -> 4

IdLess(a, b) ==
    LET ka == <<KindRank(a.k), BrokerRank(a.b), a.t, a.i>>
        kb == <<KindRank(b.k), BrokerRank(b.b), b.t, b.i>>
    IN \E n \in 1..4 : /\ ka[n] < kb[n]
                       /\ \A m \in 1..(n - 1) : ka[m] = kb[m]

\* store.getAll(): the records in key order.
RECURSIVE DbGetAllFrom(_, _)
DbGetAllFrom(d, keys) ==
    IF keys = {} THEN <<>>
    ELSE LET k == CHOOSE x \in keys : \A y \in keys \ {x} : IdLess(x, y)
         IN <<d[k]>> \o DbGetAllFrom(d, keys \ {k})

DbGetAll(d) == DbGetAllFrom(d, DOMAIN d)

-----------------------------------------------------------------------------
(* Store.tsx: the state updaters of the store context *)

\* addTrade: setTrades(prev => [trade, ...prev])
AddToTrades(prev, trade) == <<trade>> \o prev

\* A replace written as remove-then-forget: the edited record is dropped.
ReplaceInTradesDropping(prev, trade) ==
    SelectSeq(prev, LAMBDA t : t.id # trade.id)

\* updateTrade: setTrades(prev => prev.map(t => t.id === trade.id ? trade : t))
ReplaceInTrades(prev, trade) ==
    [i \in 1..Len(prev) |-> IF prev[i].id = trade.id THEN trade ELSE prev[i]]

\* new Map(updatedTrades.map(t => [t.id, t])).get(id): the last entry wins.
UpdatesMapGet(updatedTrades, id) ==
    LET hits == {i \in 1..Len(updatedTrades) : updatedTrades[i].id = id}
    IN updatedTrades[CHOOSE i \in hits : \A j \in hits : j <= i]

\* updateTradesBulk: setTrades(prev => prev.map(t => updatesMap.get(t.id) || t))
BulkReplaceInTrades(prev, updatedTrades) ==
    [i \in 1..Len(prev) |->
        IF prev[i].id \in Ids(updatedTrades)
        THEN UpdatesMapGet(updatedTrades, prev[i].id) ELSE prev[i]]

\* importTrades: setTrades(prev => [...newTrades, ...prev].sort(by date desc))
ImportIntoTrades(prev, newTrades) == SortByDateDesc(newTrades \o prev)

\* The state update of a store function whose write succeeded.
ApplyToTrades(prev, fn, recs) ==
    CASE fn = "addTrade" -> AddToTrades(prev, recs[1])
      [] fn = "updateTrade" -> ReplaceInTrades(prev, recs[1])
      [] fn = "updateTradesBulk" -> BulkReplaceInTrades(prev, recs)
      [] fn = "importTrades" -> ImportIntoTrades(prev, recs)

\* syncToSheet(tradesToSync): one POST when a webhook URL is configured;
\* addTrade and importTrades call it, the update functions do not.
SyncToSheet(log, sheet, fn, recs) ==
    IF fn \in {"addTrade", "importTrades"} /\ sheet # ""
    THEN Append(log, [i \in 1..Len(recs) |-> recs[i].id])
    ELSE log

\* What a caller of a store function observes: the functions catch the
\* write's error and log it, so their promise is fulfilled either way.
PromiseOf(st) == "fulfilled"

\* brokers.map(b => b.name === name ? { ...b, <change> } : b)
FindBroker(list, name) ==
    list[CHOOSE i \in 1..Len(list) : list[i].name = name]

\* with `changed` the changed copy of the broker called `name`
MapBroker(list, name, changed) ==
    [i \in 1..Len(list) |-> IF list[i].name = name THEN changed ELSE list[i]]

\* loadData: INITIAL_BROKERS_DEFAULT.map(def => saved.find(name) || def)
MergeBrokers(saved) ==
    IF DOMAIN saved = {} THEN INITIAL_BROKERS_DEFAULT
    ELSE [i \in 1..Len(INITIAL_BROKERS_DEFAULT) |->
            IF INITIAL_BROKERS_DEFAULT[i].name \in DOMAIN saved
            THEN saved[INITIAL_BROKERS_DEFAULT[i].name]
            ELSE INITIAL_BROKERS_DEFAULT[i]]

-----------------------------------------------------------------------------
(* Store.tsx getMetrics *)

\* a / b as the code divides it: the pair <<numerator, denominator>>.
Quot(a, b) == <<a, b>>
Times(q, k) == <<q[1] * k, q[2]>>
Zero == <<0, 1>>
QEq(p, q) == p[1] * q[2] = q[1] * p[2]
QLe(p, q) == p[1] * q[2] <= q[1] * p[2]

PnlOf(ts) == [i \in 1..Len(ts) |-> ts[i].pnl]
QtyOf(ts) == [i \in 1..Len(ts) |-> ts[i].quantity]

\* A win test that counts a flat trade.
IsWinOrFlat(t) == t.pnl >= 0

\* trades.filter(t => t.pnl > 0)
IsWin(t) == t.pnl > 0
WinningTrades(ts) == SelectSeq(ts, IsWin)

\* brokerPnL[t.broker] = (brokerPnL[t.broker] || 0) + t.pnl: the object's
\* entries, in the order the keys were first written.
RECURSIVE BrokerPnLFrom(_, _)
BrokerPnLFrom(acc, ts) ==
    IF ts = <<>> THEN acc
    ELSE LET t == ts[1]
             hit == {i \in 1..Len(acc) : acc[i].broker = t.broker}
         IN IF hit = {}
            THEN BrokerPnLFrom(Append(acc, [broker |-> t.broker, pnl |-> t.pnl]),
                               Tail(ts))
            ELSE BrokerPnLFrom(
                    [i \in 1..Len(acc) |->
                        IF i \in hit THEN [acc[i] EXCEPT !.pnl = @ + t.pnl]
                        ELSE acc[i]],
                    Tail(ts))

BrokerPnL(ts) == BrokerPnLFrom(<<>>, ts)

\* A comparison that lets a later broker with an equal sum take over.
BetterOrEqual(pnl, best) == best.name = "N/A" \/ pnl >= best.maxPnL

\* if (pnl > maxPnL) { maxPnL = pnl; bestBroker = broker }
\* starting from bestBroker = 'N/A' and maxPnL = -Infinity.
BetterThan(pnl, best) == best.name = "N/A" \/ pnl > best.maxPnL

RECURSIVE BestBrokerFrom(_, _)
BestBrokerFrom(best, entries) ==
    IF entries = <<>> THEN best
    ELSE BestBrokerFrom(
            IF BetterThan(entries[1].pnl, best)
            THEN [name |-> entries[1].broker, maxPnL |-> entries[1].pnl]
            ELSE best,
            Tail(entries))

BestBroker(ts) ==
    BestBrokerFrom([name |-> "N/A", maxPnL |-> 0], BrokerPnL(ts)).name

GetMetrics(ts, clock) ==
    LET totalPnL == SumSeq(PnlOf(ts))
        winning == WinningTrades(ts)
    IN [totalPnL |-> totalPnL,
        winRate |-> IF Len(ts) > 0 THEN Times(Quot(Len(winning), Len(ts)), 100)
                    ELSE Zero,
        avgTradeValue |-> IF Len(ts) > 0 THEN Quot(totalPnL, Len(ts)) ELSE Zero,
        totalTrades |-> Len(ts),
        tradesToday |->
            Cardinality({i \in 1..Len(ts) : DayOf(ts[i].date) = DayOf(clock)}),
        bestBroker |-> BestBroker(ts)]

-----------------------------------------------------------------------------
(* TradeHistory.tsx groupedTrades: filter, group, sort *)

NoFilter ==
    [broker |-> "All", segment |-> "All", strategy |-> "All",
     productType |-> "All"]

\* The product type as recorded, absent or not.
ProductTypeRecorded(t) == t.productType

\* t.productType || 'Delivery'
ProductTypeOf(t) == IF t.productType = "" THEN "Delivery" ELSE t.productType

PassesFilter(t, f) ==
    /\ ~(f.broker # "All" /\ t.broker # f.broker)
    /\ ~(f.segment # "All" /\ t.segment # f.segment)
    /\ ~(f.strategy # "All" /\ t.strategy # f.strategy)
    /\ ~(f.productType # "All" /\ ProductTypeOf(t) # f.productType)

FilteredTrades(ts, f) ==
    LET Keep(t) == PassesFilter(t, f) IN SelectSeq(ts, Keep)

\* A key that leaves the broker out.
GroupKeyWithoutBroker(t) == <<DayOf(t.date), t.symbol, "">>

\* `${new Date(trade.date).toDateString()}_${trade.symbol}_${trade.broker}`.
\* The day string and the broker names hold no '_', so the string determines
\* its three parts; the key is modelled as the triple.
GroupKey(t) == <<DayOf(t.date), t.symbol, t.broker>>

\* Totals assigned where they should be added to.
AddToGroupAssigning(g, t) ==
    [g EXCEPT !.trades = Append(@, t),
              !.totalPnL = t.pnl,
              !.totalQty = t.quantity]

\* groups[groupKey] created on first sight, then trades.push and += totals.
AddToGroup(g, t) ==
    [g EXCEPT !.trades = Append(@, t),
              !.totalPnL = @ + t.pnl,
              !.totalQty = @ + t.quantity]

NewGroup(t) ==
    [id |-> GroupKey(t), date |-> t.date, symbol |-> t.symbol,
     broker |-> t.broker, totalPnL |-> 0, totalQty |-> 0, trades |-> <<>>]

RECURSIVE GroupsFrom(_, _)
GroupsFrom(acc, ts) ==
    IF ts = <<>> THEN acc
    ELSE LET t == ts[1]
             hit == {i \in 1..Len(acc) : acc[i].id = GroupKey(t)}
         IN IF hit = {}
            THEN GroupsFrom(Append(acc, AddToGroup(NewGroup(t), t)), Tail(ts))
            ELSE GroupsFrom(
                    [i \in 1..Len(acc) |->
                        IF i \in hit THEN AddToGroup(acc[i], t) ELSE acc[i]],
                    Tail(ts))

\* Object.values(groups): the groups in the order their keys were created.
GroupArray(ts) == GroupsFrom(<<>>, ts)

\* toLowerCase() and the order of the lower-cased strings, as a rank.
LowerRank(str) ==
    CASE str \in {"Angel One"} -> 0
      [] str \in {"Dhan"} -> 1
      [] str \in {"Fyers"} -> 2
      [] str \in {"INFY", "infy"} -> 3
      [] str \in {"TCS", "tcs"} -> 4
      [] str \in {"Zerodha"} -> 5
      [] OTHER -> 6

\* The value the comparator compares for a sort field.
SortValue(g, field) ==
    CASE field = "date" -> g.date
      [] field = "symbol" -> LowerRank(g.symbol)
      [] field = "broker" -> LowerRank(g.broker)
      [] field = "totalPnL" -> g.totalPnL
      [] field = "totalQty" -> g.totalQty

\* A comparator that ignores the direction.
GroupCmpAscending(a, b, field, dir) ==
    LET valA == SortValue(a, field)
        valB == SortValue(b, field)
    IN IF valA < valB THEN -1 ELSE IF valA > valB THEN 1 ELSE 0

\* The comparator of groupArray.sort.
GroupCmp(a, b, field, dir) ==
    LET valA == SortValue(a, field)
        valB == SortValue(b, field)
    IN IF valA < valB THEN (IF dir = "asc" THEN -1 ELSE 1)
       ELSE IF valA > valB THEN (IF dir = "asc" THEN 1 ELSE -1)
       ELSE 0

\* Array.prototype.sort is stable: an element goes after every element that
\* does not compare greater than it.
RECURSIVE InsertGroup(_, _, _, _)
InsertGroup(sorted, g, field, dir) ==
    IF sorted = <<>> THEN <<g>>
    ELSE IF GroupCmp(sorted[1], g, field, dir) <= 0
         THEN <<sorted[1]>> \o InsertGroup(Tail(sorted), g, field, dir)
         ELSE <<g>> \o sorted

RECURSIVE SortGroupsFrom(_, _, _, _)
SortGroupsFrom(acc, gs, field, dir) ==
    IF gs = <<>> THEN acc
    ELSE SortGroupsFrom(InsertGroup(acc, gs[1], field, dir), Tail(gs), field, dir)

GroupedTrades(ts, f, field, dir) ==
    SortGroupsFrom(<<>>, GroupArray(FilteredTrades(ts, f)), field, dir)

-----------------------------------------------------------------------------
(* The session: initial state and loadData *)

NoGroup == <<-1, "", "">>

DefaultUI(p) ==
    CASE p = "brokers" ->
            [activeBroker |-> "", processing |-> FALSE, syncingBroker |-> "",
             statusMsg |-> "none", expandedConfig |-> "", dialogOpen |-> FALSE]
      [] p = "new-trade" -> [loading |-> FALSE, feedback |-> ""]
      [] p = "history" ->
            [expandedGroupId |-> NoGroup,
             filter |-> NoFilter,
             sortField |-> "date", sortDirection |-> "desc",
             editingTradeId |-> NoId, editForm |-> [id |-> NoId],
             editingGroupId |-> NoGroup,
             groupEditForm |-> [strategy |-> "Manual", confidence |-> 5,
                                notes |-> "", mistake |-> ""],
             analyzingId |-> NoId]
      [] p = "analysis" ->
            [dateRange |-> [start |-> -1, end |-> -1], loading |-> FALSE,
             aiFeedback |-> ""]
      [] OTHER -> [idle |-> TRUE]

\* A trade saved by an earlier session.
SeedTrade ==
    Trade(SeedId(1), 0, "TCS", "Zerodha", 100, 110, 1, 10, "Equity", 5,
          "Manual", "Imported via Tradebook CSV", "", "")

SeedDb == DbPut(EmptyStore, SeedTrade.id, SeedTrade)

\* Broker records saved by an earlier session: connected, with a token.
SeedBrokers ==
    [n \in ActedBrokers |-> BrokerStatus(n, TRUE, NoSync, "token")]

\* The update functions of the store.
UpdateFns == {"updateTrade", "updateTradesBulk"}

\* The last settled store call: the function, its awaiting caller, how the
\* write ended, the promise the caller observed, the status it reported, and
\* for an update a page handler awaits the ids it shares with the updates
\* that were in flight when it settled.
NoOutcome ==
    [fn |-> "none", then |-> "none", st |-> "none", promise |-> "none",
     reported |-> "none", overlap |-> {}]

NoView == [k |-> "none"]

\* The state after construction with page p mounted, over what earlier
\* sessions left in the stores.
InitOn(p) ==
    /\ trades = <<>>
    /\ brokers = INITIAL_BROKERS_DEFAULT
    /\ settings = ""
    /\ isLoading = TRUE
    /\ db \in {EmptyStore, SeedDb}
    /\ dbBrokers \in {EmptyStore, SeedBrokers}
    /\ dbSettings \in {"", "https://sheet"}
    /\ ops = <<>>
    /\ tasks = <<>>
    /\ posts = <<>>
    /\ ai \in BOOLEAN
    /\ now = 0
    /\ page = p
    /\ ui = DefaultUI(p)
    /\ outcome = NoOutcome
    /\ cmds = 0
    /\ view = NoView

\* loadData: Promise.all of the four reads, then the setters; on a failed
\* read nothing is set.  finally: setIsLoading(false).
LoadData ==
    /\ isLoading
    /\ isLoading' = FALSE
    /\ \/ /\ trades' = SortByDateDesc(DbGetAll(db))
          /\ settings' = dbSettings
          /\ brokers' = MergeBrokers(dbBrokers)
       \/ UNCHANGED <<trades, settings, brokers>>
    /\ UNCHANGED <<db, dbBrokers, dbSettings, ops, tasks, posts,
                   ai, now, page, ui, outcome, cmds, view>>

\* Date.now() advances.
Tick ==
    /\ now < MaxClock
    /\ now' = now + 1
    /\ UNCHANGED <<trades, brokers, settings, isLoading, db, dbBrokers,
                   dbSettings, ops, tasks, posts, ai, page, ui,
                   outcome, cmds, view>>

\* The children render once loading is over; a command is one user gesture.
CanCommand ==
    /\ ~isLoading
    /\ cmds < (CASE page = "history" -> MaxEdits [] page = "api" -> MaxCalls
                 [] OTHER -> MaxCmds)

-----------------------------------------------------------------------------
(* Store.tsx: the store functions.  A call is queued in ops; the object     *)
(* store serves the calls in call order; the rest of the function runs when *)
(* the write has settled.                                                   *)

\* A call of addTrade / updateTrade / updateTradesBulk / importTrades, up to
\* its `await db...`.  `then` names the caller that awaits the call.
StoreCall(fn, recs, sheet, then) ==
    [fn |-> fn, recs |-> recs, st |-> "pending", sheet |-> sheet,
     then |-> then]

SyncCall(recs, sheet, broker, snap) ==
    [fn |-> "importTrades", recs |-> recs, st |-> "pending", sheet |-> sheet,
     then |-> "sync", broker |-> broker, snap |-> snap]

\* The pending call made last, for the comparison with FirstPending.
LastPending ==
    CHOOSE i \in 1..Len(ops) :
        /\ ops[i].st = "pending"
        /\ \A j \in (i + 1)..Len(ops) : ops[j].st # "pending"

FirstPending ==
    CHOOSE i \in 1..Len(ops) :
        /\ ops[i].st = "pending"
        /\ \A j \in 1..(i - 1) : ops[j].st # "pending"

\* What `await db...` observes.  saveTrade resolves on the put request's
\* success, saveTradesBulk on the transaction's completion; both reject on
\* an error event.
DbPromise(st) ==
    CASE st \in {"ok", "lost"} -> "resolved"
      [] st = "fail" -> "rejected"
      [] OTHER -> "pending"

\* db.saveTrade / db.saveTradesBulk: the write of one call, all records or
\* none of them.
DbWriteOk ==
    /\ \E i \in 1..Len(ops) : ops[i].st = "pending"
    /\ db' = DbPutAll(db, ops[FirstPending].recs)
    /\ ops' = [ops EXCEPT ![FirstPending].st = "ok"]
    /\ UNCHANGED <<trades, brokers, settings, isLoading, dbBrokers, dbSettings,
                   tasks, posts, ai, now, page, ui, outcome,
                   cmds, view>>

DbWriteFail ==
    /\ \E i \in 1..Len(ops) : ops[i].st = "pending"
    /\ ops' = [ops EXCEPT ![FirstPending].st = "fail"]
    /\ UNCHANGED <<trades, brokers, settings, isLoading, db, dbBrokers,
                   dbSettings, tasks, posts, ai, now, page, ui,
                   outcome, cmds, view>>

\* The transaction aborts at commit, after its requests succeeded: nothing is
\* written.  saveTrade has resolved by then (request.onsuccess);
\* saveTradesBulk listens to oncomplete and onerror only and never settles.
DbWriteAbort ==
    /\ \E i \in 1..Len(ops) : ops[i].st = "pending"
    /\ ops' = IF ops[FirstPending].fn \in {"addTrade", "updateTrade"}
              THEN [ops EXCEPT ![FirstPending].st = "lost"]
              ELSE RemoveAt(ops, FirstPending)
    /\ UNCHANGED <<trades, brokers, settings, isLoading, db, dbBrokers,
                   dbSettings, tasks, posts, ai, now, page, ui,
                   outcome, cmds, view>>

\* db.saveBroker(record): the record is put.  Nothing reads the store before
\* the next session, so the write is taken to settle at the call; a failed
\* write is only logged and is left out of the model.
SaveBroker(store, rec) == DbPut(store, rec.name, rec)

\* syncBroker after `await importTrades(newTrades)`: lastSync of the brokers
\* list the call was made with.
WithLastSync(snap, name, when) ==
    MapBroker(snap, name, [FindBroker(snap, name) EXCEPT !.lastSync = when])

\* What the awaiting caller does once the store function's promise settles.
UiAfter(op, promise) ==
    CASE op.then = "sync" ->
            [ui EXCEPT !.statusMsg = IF promise = "fulfilled" THEN "sync_ok"
                                     ELSE "sync_fail",
                       !.syncingBroker = ""]
      [] op.then = "saveEdit" /\ promise = "fulfilled" ->
            [ui EXCEPT !.editingTradeId = NoId]
      [] op.then = "saveGroupEdit" /\ promise = "fulfilled" ->
            [ui EXCEPT !.editingGroupId = NoGroup]
      [] op.then = "runAnalysis" /\ promise = "fulfilled" ->
            [ui EXCEPT !.analyzingId = NoId]
      [] OTHER -> ui

\* The rest of a store function after its await, and the caller's rest after
\* that: after a resolved write setTrades and syncToSheet, after a rejected
\* one console.error.
OpComplete ==
    /\ ops # <<>>
    /\ ops[1].st # "pending"
    /\ LET op == ops[1]
           promise == PromiseOf(op.st)
       IN /\ trades' = IF DbPromise(op.st) = "resolved"
                       THEN ApplyToTrades(trades, op.fn, op.recs)
                       ELSE trades
          /\ posts' = IF DbPromise(op.st) = "resolved"
                      THEN SyncToSheet(posts, op.sheet, op.fn, op.recs)
                      ELSE posts
          /\ outcome' = [fn |-> op.fn, then |-> op.then, st |-> op.st,
                         promise |-> promise,
                         reported |-> IF op.then = "sync"
                                      THEN UiAfter(op, promise).statusMsg
                                      ELSE "none",
                         overlap |-> {id \in Ids(op.recs) :
                                        \E j \in 2..Len(ops) :
                                            /\ op.fn \in UpdateFns
                                            /\ op.then # "none"
                                            /\ ops[j].fn \in UpdateFns
                                            /\ id \in Ids(ops[j].recs)}]
          /\ IF op.then = "sync" /\ promise = "fulfilled"
             THEN /\ brokers' = WithLastSync(op.snap, op.broker, now)
                  /\ dbBrokers' = SaveBroker(dbBrokers,
                                             FindBroker(brokers', op.broker))
             ELSE UNCHANGED <<brokers, dbBrokers>>
          /\ ui' = UiAfter(op, promise)
    /\ ops' = Tail(ops)
    /\ UNCHANGED <<settings, isLoading, db, dbSettings, tasks, ai, now, page,
                   cmds, view>>

\* updateBrokerConfig(name, config)
UpdateBrokerConfig(list, name, config) ==
    MapBroker(list, name, [FindBroker(list, name) EXCEPT !.apiConfig = config])

-----------------------------------------------------------------------------
(* The store functions called directly (AppState's interface), with any of *)
(* a few records.                                                           *)

ManualTrade(clock, exit, analysis) ==
    Trade(ManualId(clock), clock, "INFY", "Zerodha", 100, exit, 1,
          (exit - 100) * 1, "Equity", 5, "Manual", "", "", analysis)

EditedSeed == [SeedTrade EXCEPT !.strategy = "Breakout"]

CallTrades == {EditedSeed, ManualTrade(0, 110, "")}

CallLists ==
    { <<EditedSeed, ManualTrade(0, 110, "")>>,
      <<ManualTrade(0, 110, "analysis"), ManualTrade(0, 90, "")>> }

\* addTrade(trade) up to `await db.saveTrade(trade)`
AddTrade(trade) ==
    /\ CanCommand
    /\ page = "api"
    /\ ops' = Append(ops, StoreCall("addTrade", <<trade>>, settings, "none"))
    /\ cmds' = cmds + 1
    /\ UNCHANGED <<trades, brokers, settings, isLoading, db, dbBrokers,
                   dbSettings, tasks, posts, ai, now, page, ui,
                   outcome, view>>

\* updateTrade(trade) up to `await db.updateTrade(trade)`
UpdateTrade(trade) ==
    /\ CanCommand
    /\ page = "api"
    /\ ops' = Append(ops, StoreCall("updateTrade", <<trade>>, settings, "none"))
    /\ cmds' = cmds + 1
    /\ UNCHANGED <<trades, brokers, settings, isLoading, db, dbBrokers,
                   dbSettings, tasks, posts, ai, now, page, ui,
                   outcome, view>>

\* updateTradesBulk(updatedTrades) up to `await db.updateTradesBulk(...)`
UpdateTradesBulk(updatedTrades) ==
    /\ CanCommand
    /\ page = "api"
    /\ ops' = Append(ops, StoreCall("updateTradesBulk", updatedTrades, settings,
                                    "none"))
    /\ cmds' = cmds + 1
    /\ UNCHANGED <<trades, brokers, settings, isLoading, db, dbBrokers,
                   dbSettings, tasks, posts, ai, now, page, ui,
                   outcome, view>>

\* importTrades(newTrades) up to `await db.saveTradesBulk(newTrades)`
ImportTrades(newTrades) ==
    /\ CanCommand
    /\ page = "api"
    /\ ops' = Append(ops, StoreCall("importTrades", newTrades, settings, "none"))
    /\ cmds' = cmds + 1
    /\ UNCHANGED <<trades, brokers, settings, isLoading, db, dbBrokers,
                   dbSettings, tasks, posts, ai, now, page, ui,
                   outcome, view>>

Init ==
    /\ InitOn("api")
    /\ db = SeedDb
    /\ dbBrokers = EmptyStore
    /\ ai

Next ==
    \/ LoadData
    \/ \E t \in CallTrades : AddTrade(t)
    \/ \E t \in CallTrades : UpdateTrade(t)
    \/ \E ts \in CallLists : UpdateTradesBulk(ts)
    \/ \E ts \in CallLists : ImportTrades(ts)
    \/ DbWriteOk
    \/ DbWriteFail
    \/ DbWriteAbort
    \/ OpComplete

Spec == Init /\ [][Next]_vars

-----------------------------------------------------------------------------
(* Brokers.tsx *)

\* toggleBroker(name)
ToggleBroker(name) ==
    /\ CanCommand
    /\ page = "brokers"
    /\ ~ui.dialogOpen
    /\ brokers' = MapBroker(brokers, name,
                    [FindBroker(brokers, name) EXCEPT
                        !.isConnected = ~@,
                        !.lastSync = IF ~FindBroker(brokers, name).isConnected
                                     THEN now ELSE NoSync])
    /\ dbBrokers' = SaveBroker(dbBrokers, FindBroker(brokers', name))
    /\ cmds' = cmds + 1
    /\ UNCHANGED <<trades, settings, isLoading, db, dbSettings, ops, tasks,
                   posts, ai, now, page, ui, outcome, view>>

\* handleImportClick: the CSV Import button shows for a connected broker and
\* is disabled while processing; the click opens the file dialog.
HandleImportClick(b) ==
    /\ CanCommand
    /\ page = "brokers"
    /\ ~ui.dialogOpen
    /\ FindBroker(brokers, b).isConnected
    /\ ~ui.processing
    /\ ui' = [ui EXCEPT !.activeBroker = b, !.statusMsg = "none",
                        !.dialogOpen = TRUE]
    /\ cmds' = cmds + 1
    /\ UNCHANGED <<trades, brokers, settings, isLoading, db, dbBrokers,
                   dbSettings, ops, tasks, posts, ai, now, page,
                   outcome, view>>

\* The file dialog is dismissed: no change event.
DialogCancel ==
    /\ page = "brokers"
    /\ ui.dialogOpen
    /\ ui' = [ui EXCEPT !.dialogOpen = FALSE]
    /\ UNCHANGED <<trades, brokers, settings, isLoading, db, dbBrokers,
                   dbSettings, ops, tasks, posts, ai, now, page,
                   outcome, cmds, view>>

\* handleFileChange: a file was chosen (activeBroker is set by the click that
\* opened the dialog); reader.readAsText(file) is started.
HandleFileChange ==
    /\ page = "brokers"
    /\ ui.dialogOpen
    /\ ui.activeBroker # ""
    /\ ui' = [ui EXCEPT !.dialogOpen = FALSE, !.processing = TRUE,
                        !.statusMsg = "none"]
    /\ tasks' = Append(tasks, [k |-> "parse", sheet |-> settings,
                               broker |-> ui.activeBroker])
    /\ UNCHANGED <<trades, brokers, settings, isLoading, db, dbBrokers,
                   dbSettings, ops, posts, ai, now, page,
                   outcome, cmds, view>>

\* The type of a status message, { type: 'success' | 'error', text }.
StatusType(msg) ==
    CASE msg \in {"import_ok", "config_saved", "sync_ok"} -> "success"
      [] msg \in {"import_none", "import_fail", "sync_fail"} -> "error"
      [] OTHER -> "none"

\* The rows the AI service can answer with; segment "" is a missing segment.
\* The pnl of a row is the service's own figure: the second row's is the
\* price difference less a charge of 1.
RawRow(date, symbol, entry, exit, qty, pnl, segment) ==
    [date |-> date, symbol |-> symbol, entryPrice |-> entry,
     exitPrice |-> exit, quantity |-> qty, pnl |-> pnl, segment |-> segment]

RawAnswers ==
    { <<>>,
      << RawRow(1, "INFY", 100, 110, 10, 100, "F&O"),
         RawRow(0, "tcs", 120, 100, 1, -21, "") >> }

\* A mapping that keeps the segment as answered.
ParseTradebookKeepingSegment(rawTrades, broker, clock) ==
    [n \in 1..Len(rawTrades) |->
        LET t == rawTrades[n]
        IN Trade(ImportedId(clock, n - 1), t.date, t.symbol, broker,
                 t.entryPrice, t.exitPrice, t.quantity, t.pnl, t.segment,
                 5, "Manual", "Imported via Tradebook CSV", "",
                 "Trade imported from broker records.")]

\* parseTradebook: rawTrades.map((t, index) => ({ id: `imported-...`, ... }))
ParseTradebook(rawTrades, broker, clock) ==
    [n \in 1..Len(rawTrades) |->
        LET t == rawTrades[n]
        IN Trade(ImportedId(clock, n - 1), t.date, t.symbol, broker,
                 t.entryPrice, t.exitPrice, t.quantity, t.pnl,
                 IF t.segment = "" THEN "Equity" ELSE t.segment,
                 5, "Manual", "Imported via Tradebook CSV", "",
                 "Trade imported from broker records.")]

\* reader.onload after parseTradebook resolved with `raw` rows: importTrades
\* is called and not awaited.
ParseReturn(i, raw) ==
    /\ i \in 1..Len(tasks)
    /\ tasks[i].k = "parse"
    /\ ai
    /\ LET importedTrades == ParseTradebook(raw, tasks[i].broker, now)
       IN /\ IF Len(importedTrades) > 0
             THEN ops' = Append(ops, StoreCall("importTrades", importedTrades,
                                               tasks[i].sheet, "none"))
             ELSE UNCHANGED ops
          /\ ui' = [ui EXCEPT !.statusMsg = IF Len(importedTrades) > 0
                                            THEN "import_ok" ELSE "import_none",
                              !.processing = FALSE,
                              !.activeBroker = ""]
    /\ tasks' = RemoveAt(tasks, i)
    /\ UNCHANGED <<trades, brokers, settings, isLoading, db, dbBrokers,
                   dbSettings, posts, ai, now, page, outcome,
                   cmds, view>>

\* reader.onload after parseTradebook threw (no client, or the call or the
\* JSON parse failed).
ParseThrow(i) ==
    /\ i \in 1..Len(tasks)
    /\ tasks[i].k = "parse"
    /\ ui' = [ui EXCEPT !.statusMsg = "import_fail", !.processing = FALSE,
                        !.activeBroker = ""]
    /\ tasks' = RemoveAt(tasks, i)
    /\ UNCHANGED <<trades, brokers, settings, isLoading, db, dbBrokers,
                   dbSettings, ops, posts, ai, now, page,
                   outcome, cmds, view>>

\* The file read fails: reader.onload never runs (no onerror is installed).
ReadError(i) ==
    /\ i \in 1..Len(tasks)
    /\ tasks[i].k = "parse"
    /\ tasks' = RemoveAt(tasks, i)
    /\ UNCHANGED <<trades, brokers, settings, isLoading, db, dbBrokers,
                   dbSettings, ops, posts, ai, now, page, ui,
                   outcome, cmds, view>>

\* handleConfigClick: the API Config button shows for a connected broker.
HandleConfigClick(b) ==
    /\ CanCommand
    /\ page = "brokers"
    /\ ~ui.dialogOpen
    /\ FindBroker(brokers, b).isConnected
    /\ ui' = [ui EXCEPT !.expandedConfig = IF @ = b THEN "" ELSE b]
    /\ cmds' = cmds + 1
    /\ UNCHANGED <<trades, brokers, settings, isLoading, db, dbBrokers,
                   dbSettings, ops, tasks, posts, ai, now, page,
                   outcome, view>>

\* saveApiConfig: updateBrokerConfig(name, {accessToken: apiForm.accessToken})
SaveApiConfig(b, config) ==
    /\ CanCommand
    /\ page = "brokers"
    /\ ~ui.dialogOpen
    /\ ui.expandedConfig = b
    /\ brokers' = UpdateBrokerConfig(brokers, b, config)
    /\ dbBrokers' = SaveBroker(dbBrokers, FindBroker(brokers', b))
    /\ ui' = [ui EXCEPT !.expandedConfig = "", !.statusMsg = "config_saved"]
    /\ cmds' = cmds + 1
    /\ UNCHANGED <<trades, settings, isLoading, db, dbSettings, ops, tasks,
                   posts, ai, now, page, outcome, view>>

\* The One-Click Sync button of broker b is shown and enabled.
SyncEnabled(b) ==
    /\ FindBroker(brokers, b).isConnected
    /\ FindBroker(brokers, b).apiConfig = "token"
    /\ ui.syncingBroker # b

\* handleSyncClick, into syncBroker up to `await fetchTradesFromBroker`.
\* The button shows only for a broker with a token, so syncBroker's "Broker
\* not configured" and the fetch's "Access Token is missing" are not taken.
HandleSyncClick(b) ==
    /\ CanCommand
    /\ page = "brokers"
    /\ ~ui.dialogOpen
    /\ SyncEnabled(b)
    /\ ui' = [ui EXCEPT !.syncingBroker = b, !.statusMsg = "none"]
    /\ tasks' = Append(tasks, [k |-> "sync", sheet |-> settings, broker |-> b,
                               snap |-> brokers])
    /\ cmds' = cmds + 1
    /\ UNCHANGED <<trades, brokers, settings, isLoading, db, dbBrokers,
                   dbSettings, ops, posts, ai, now, page,
                   outcome, view>>

\* fetchTradesFromBroker: the mock's trades (entry 100, exit 5% above or
\* below, quantity 10).
FetchedTrade(b, clock, i, isWin) ==
    Trade(ApiId(b, clock, i), clock, "TCS", b, 100,
          IF isWin THEN 105 ELSE 95, 10, IF isWin THEN 50 ELSE -50,
          "Equity", 5, "Manual", "Auto-synced", "", "")

\* syncBroker after the fetch resolved with `count` trades: importTrades is
\* called and awaited.
SyncReturn(i, count, isWin) ==
    /\ i \in 1..Len(tasks)
    /\ tasks[i].k = "sync"
    /\ LET newTrades == [n \in 1..count |->
                            FetchedTrade(tasks[i].broker, now, n - 1, isWin)]
       IN ops' = Append(ops, SyncCall(newTrades, tasks[i].sheet,
                                      tasks[i].broker, tasks[i].snap))
    /\ tasks' = RemoveAt(tasks, i)
    /\ UNCHANGED <<trades, brokers, settings, isLoading, db, dbBrokers,
                   dbSettings, posts, ai, now, page, ui, outcome,
                   cmds, view>>

InitBrokers ==
    /\ InitOn("brokers")
    /\ db = SeedDb
    /\ dbBrokers = SeedBrokers

NextBrokers ==
    \/ LoadData
    \/ Tick
    \/ DbWriteOk
    \/ DbWriteFail
    \/ DbWriteAbort
    \/ OpComplete
    \/ \E b \in ActedBrokers : ToggleBroker(b)
    \/ \E b \in ActedBrokers : HandleImportClick(b)
    \/ DialogCancel
    \/ HandleFileChange
    \/ \E i \in 1..Len(tasks), raw \in RawAnswers : ParseReturn(i, raw)
    \/ \E i \in 1..Len(tasks) : ParseThrow(i)
    \/ \E i \in 1..Len(tasks) : ReadError(i)
    \/ \E b \in ActedBrokers : HandleConfigClick(b)
    \/ \E b \in ActedBrokers, c \in {"empty", "token"} : SaveApiConfig(b, c)
    \/ \E b \in ActedBrokers : HandleSyncClick(b)
    \/ \E i \in 1..Len(tasks), n \in 1..MaxSyncCount, w \in BOOLEAN :
            SyncReturn(i, n, w)

SpecBrokers == InitBrokers /\ [][NextBrokers]_vars

-----------------------------------------------------------------------------
(* TradeHistory.tsx: the journal's handlers, under the default filters and  *)
(* sort.                                                                    *)

\* What analyzeTrade resolves with: the mock text without a client, else the
\* model's text or the error text; it never throws.
AnalyzeAnswers(client) ==
    IF client THEN {"analysis", "Error generating analysis."}
    ELSE {"AI Analysis Unavailable"}

ShownGroups == GroupedTrades(trades, NoFilter, "date", "desc")

\* The expanded trades list of a group renders while no group is edited.
RowShown(t) ==
    /\ ui.expandedGroupId = GroupKey(t)
    /\ ui.editingGroupId = NoGroup

\* The values typed into the edit forms, by field.  The confidence inputs
\* are <input type="number" min="1" max="10">: min and max do not stop a
\* typed value, and the handlers store e.target.value as it is (the string
\* '11', kept here as its number).
EditValues(name) ==
    CASE name = "strategy" -> {"Breakout"}
      [] name = "notes" -> {"note"}
      [] name = "mistake" -> {"FOMO"}
      [] name = "confidence" -> {11}

EditFields == {"strategy", "notes", "mistake", "confidence"}

\* toggleGroup(id): a click on a group's row
ToggleGroup(g) ==
    /\ CanCommand
    /\ page = "history"
    /\ g \in Range(ShownGroups)
    /\ ui.editingGroupId # g.id
    /\ ui' = [ui EXCEPT !.expandedGroupId = IF @ = g.id THEN NoGroup ELSE g.id]
    /\ cmds' = cmds + 1
    /\ UNCHANGED <<trades, brokers, settings, isLoading, db, dbBrokers,
                   dbSettings, ops, tasks, posts, ai, now, page,
                   outcome, view>>

\* startEditing(trade)
StartEditing(n) ==
    /\ CanCommand
    /\ page = "history"
    /\ n \in 1..Len(trades)
    /\ RowShown(trades[n])
    /\ ui.editingTradeId # trades[n].id
    /\ ui' = [ui EXCEPT !.editingTradeId = trades[n].id,
                        !.editForm = trades[n]]
    /\ cmds' = cmds + 1
    /\ UNCHANGED <<trades, brokers, settings, isLoading, db, dbBrokers,
                   dbSettings, ops, tasks, posts, ai, now, page,
                   outcome, view>>

\* The row of the trade being edited is rendered, with its form.
EditRowShown ==
    \E n \in 1..Len(trades) :
        trades[n].id = ui.editingTradeId /\ RowShown(trades[n])

\* handleEditChange: setEditForm(prev => ({ ...prev, [name]: value }))
HandleEditChange(name, value) ==
    /\ CanCommand
    /\ page = "history"
    /\ EditRowShown
    /\ ui' = [ui EXCEPT !.editForm =
                [f \in DOMAIN @ \cup {name} |-> IF f = name THEN value ELSE @[f]]]
    /\ cmds' = cmds + 1
    /\ UNCHANGED <<trades, brokers, settings, isLoading, db, dbBrokers,
                   dbSettings, ops, tasks, posts, ai, now, page,
                   outcome, view>>

\* cancelEditing
CancelEditing ==
    /\ CanCommand
    /\ page = "history"
    /\ EditRowShown
    /\ ui' = [ui EXCEPT !.editingTradeId = NoId, !.editForm = [id |-> NoId]]
    /\ cmds' = cmds + 1
    /\ UNCHANGED <<trades, brokers, settings, isLoading, db, dbBrokers,
                   dbSettings, ops, tasks, posts, ai, now, page,
                   outcome, view>>

\* saveEdit up to `await updateTrade(editForm)`
SaveEdit ==
    /\ CanCommand
    /\ page = "history"
    /\ EditRowShown
    /\ ui.editingTradeId # NoId /\ ui.editForm.id # NoId
    /\ ops' = Append(ops, StoreCall("updateTrade", <<ui.editForm>>, settings,
                                    "saveEdit"))
    /\ cmds' = cmds + 1
    /\ UNCHANGED <<trades, brokers, settings, isLoading, db, dbBrokers,
                   dbSettings, tasks, posts, ai, now, page, ui,
                   outcome, view>>

\* startGroupEditing(group): the form is pre-filled from the group's first
\* trade, and the group is expanded.
StartGroupEditing(g) ==
    /\ CanCommand
    /\ page = "history"
    /\ g \in Range(ShownGroups)
    /\ ui.editingGroupId # g.id
    /\ LET firstTrade == g.trades[1]
       IN ui' = [ui EXCEPT
                   !.editingGroupId = g.id,
                   !.groupEditForm =
                       [strategy |-> firstTrade.strategy,
                        confidence |-> firstTrade.confidence,
                        notes |-> IF firstTrade.notes
                                       = "Imported via Tradebook CSV"
                                  THEN "" ELSE firstTrade.notes,
                        mistake |-> firstTrade.mistake],
                   !.expandedGroupId = g.id]
    /\ cmds' = cmds + 1
    /\ UNCHANGED <<trades, brokers, settings, isLoading, db, dbBrokers,
                   dbSettings, ops, tasks, posts, ai, now, page,
                   outcome, view>>

\* The batch edit form of the group being edited is rendered.
GroupFormShown == \E g \in Range(ShownGroups) : ui.editingGroupId = g.id

\* handleGroupEditChange: setGroupEditForm(prev => ({ ...prev, [name]: value }))
HandleGroupEditChange(name, value) ==
    /\ CanCommand
    /\ page = "history"
    /\ GroupFormShown
    /\ ui' = [ui EXCEPT !.groupEditForm = [@ EXCEPT ![name] = value]]
    /\ cmds' = cmds + 1
    /\ UNCHANGED <<trades, brokers, settings, isLoading, db, dbBrokers,
                   dbSettings, ops, tasks, posts, ai, now, page,
                   outcome, view>>

\* cancelGroupEditing
CancelGroupEditing ==
    /\ CanCommand
    /\ page = "history"
    /\ GroupFormShown
    /\ ui' = [ui EXCEPT !.editingGroupId = NoGroup]
    /\ cmds' = cmds + 1
    /\ UNCHANGED <<trades, brokers, settings, isLoading, db, dbBrokers,
                   dbSettings, ops, tasks, posts, ai, now, page,
                   outcome, view>>

\* group.trades.map(t => ({ ...t, strategy, confidence, notes, mistake }))
GroupEdited(groupTrades, form) ==
    [n \in 1..Len(groupTrades) |->
        [groupTrades[n] EXCEPT !.strategy = form.strategy,
                               !.confidence = form.confidence,
                               !.notes = form.notes,
                               !.mistake = form.mistake]]

\* saveGroupEdit(group) up to `await updateTradesBulk(updatedTrades)`
SaveGroupEdit(g) ==
    /\ CanCommand
    /\ page = "history"
    /\ g \in Range(ShownGroups)
    /\ ui.editingGroupId = g.id
    /\ ops' = Append(ops, StoreCall("updateTradesBulk",
                                    GroupEdited(g.trades, ui.groupEditForm),
                                    settings, "saveGroupEdit"))
    /\ cmds' = cmds + 1
    /\ UNCHANGED <<trades, brokers, settings, isLoading, db, dbBrokers,
                   dbSettings, tasks, posts, ai, now, page, ui,
                   outcome, view>>

\* runAnalysis(trade) up to `await analyzeTrade(trade)`: the handler keeps
\* the record its row was rendered with.
RunAnalysis(n) ==
    /\ CanCommand
    /\ page = "history"
    /\ n \in 1..Len(trades)
    /\ RowShown(trades[n])
    /\ ui.editingTradeId # trades[n].id
    /\ ui.analyzingId # trades[n].id
    /\ ui' = [ui EXCEPT !.analyzingId = trades[n].id]
    /\ tasks' = Append(tasks, [k |-> "analysis", sheet |-> settings,
                               trade |-> trades[n]])
    /\ cmds' = cmds + 1
    /\ UNCHANGED <<trades, brokers, settings, isLoading, db, dbBrokers,
                   dbSettings, ops, posts, ai, now, page,
                   outcome, view>>

\* runAnalysis after analyzeTrade resolved, up to
\* `await updateTrade({ ...trade, aiAnalysis: analysis })`
AnalysisReturn(i, analysis) ==
    /\ i \in 1..Len(tasks)
    /\ tasks[i].k = "analysis"
    /\ analysis \in AnalyzeAnswers(ai)
    /\ ops' = Append(ops, StoreCall("updateTrade",
                            <<[tasks[i].trade EXCEPT !.aiAnalysis = analysis]>>,
                            tasks[i].sheet, "runAnalysis"))
    /\ tasks' = RemoveAt(tasks, i)
    /\ UNCHANGED <<trades, brokers, settings, isLoading, db, dbBrokers,
                   dbSettings, posts, ai, now, page, ui, outcome,
                   cmds, view>>

InitHistory ==
    /\ InitOn("history")
    /\ db = SeedDb
    /\ dbBrokers = EmptyStore
    /\ dbSettings = ""

NextHistory ==
    \/ LoadData
    \/ DbWriteOk
    \/ DbWriteFail
    \/ DbWriteAbort
    \/ OpComplete
    \/ \E g \in Range(ShownGroups) : ToggleGroup(g)
    \/ \E n \in 1..Len(trades) : StartEditing(n)
    \/ \E name \in EditFields : \E value \in EditValues(name) :
            HandleEditChange(name, value)
    \/ CancelEditing
    \/ SaveEdit
    \/ \E g \in Range(ShownGroups) : StartGroupEditing(g)
    \/ \E name \in EditFields : \E value \in EditValues(name) :
            HandleGroupEditChange(name, value)
    \/ CancelGroupEditing
    \/ \E g \in Range(ShownGroups) : SaveGroupEdit(g)
    \/ \E n \in 1..Len(trades) : RunAnalysis(n)
    \/ \E i \in 1..Len(tasks) :
            \E analysis \in {"analysis", "Error generating analysis.",
                             "AI Analysis Unavailable"} :
                AnalysisReturn(i, analysis)

SpecHistory == InitHistory /\ [][NextHistory]_vars

-----------------------------------------------------------------------------
(* TradeHistory.tsx: the sort controls of the journal's column headers.     *)

SortFields == {"date", "symbol", "broker", "totalQty", "totalPnL"}

\* A switch of field that keeps the direction in use.
SortAfterKeepingDirection(field, sortField, sortDirection) ==
    IF sortField = field
    THEN <<sortField, IF sortDirection = "asc" THEN "desc" ELSE "asc">>
    ELSE <<field, sortDirection>>

\* handleSort(field): the sort field and direction after the click.
SortAfter(field, sortField, sortDirection) ==
    IF sortField = field
    THEN <<sortField, IF sortDirection = "asc" THEN "desc" ELSE "asc">>
    ELSE <<field, "desc">>

\* The last two entries of a log.
LastTwo(log) == IF Len(log) > 2 THEN SubSeq(log, Len(log) - 1, Len(log)) ELSE log

\* handleSort(field), a click on a column header.  view keeps the last two
\* clicks, each with the sort state it found.
HandleSort(field) ==
    /\ ~isLoading
    /\ page = "history"
    /\ LET after == SortAfter(field, ui.sortField, ui.sortDirection)
       IN ui' = [ui EXCEPT !.sortField = after[1], !.sortDirection = after[2]]
    /\ view' = [k |-> "sort",
                clicks |-> LastTwo(Append(IF view.k = "sort" THEN view.clicks
                                          ELSE <<>>,
                                          [field |-> field,
                                           from |-> <<ui.sortField,
                                                      ui.sortDirection>>]))]
    /\ UNCHANGED <<trades, brokers, settings, isLoading, db, dbBrokers,
                   dbSettings, ops, tasks, posts, ai, now, page,
                   outcome, cmds>>

NextSortControl ==
    \/ LoadData
    \/ \E field \in SortFields : HandleSort(field)

SpecSortControl == InitHistory /\ [][NextSortControl]_vars

-----------------------------------------------------------------------------
(* TradeHistory.tsx: the journal under its filter and sort controls.        *)

\* What a trade of the journal is drawn from: two trades of one group that
\* differ in strategy and product type, a symbol that differs from theirs in
\* case only, and trades of another symbol, broker, segment and day; product
\* types absent, Intraday and Delivery.
JournalShapes ==
    { [date |-> 0, symbol |-> "TCS", broker |-> "Zerodha", pnl |-> 50,
       quantity |-> 10, segment |-> "Equity", strategy |-> "Manual",
       productType |-> ""],
      [date |-> 1, symbol |-> "TCS", broker |-> "Zerodha", pnl |-> -20,
       quantity |-> 1, segment |-> "Equity", strategy |-> "Breakout",
       productType |-> "Intraday"],
      [date |-> 0, symbol |-> "tcs", broker |-> "Zerodha", pnl |-> 50,
       quantity |-> 10, segment |-> "Equity", strategy |-> "Manual",
       productType |-> "Delivery"],
      [date |-> 0, symbol |-> "INFY", broker |-> "Fyers", pnl |-> -20,
       quantity |-> 1, segment |-> "F&O", strategy |-> "Breakout",
       productType |-> ""],
      [date |-> 2, symbol |-> "INFY", broker |-> "Fyers", pnl |-> 50,
       quantity |-> 10, segment |-> "Equity", strategy |-> "Manual",
       productType |-> "Intraday"],
      [date |-> 2, symbol |-> "TCS", broker |-> "Fyers", pnl |-> 0,
       quantity |-> 1, segment |-> "Equity", strategy |-> "Manual",
       productType |-> ""] }

\* The n-th trade of a journal, of shape sh.
JournalTrade(n, sh) ==
    [Trade(SeedId(n), sh.date, sh.symbol, sh.broker, 100, 100, sh.quantity,
           sh.pnl, sh.segment, 5, sh.strategy, "", "", "")
        EXCEPT !.productType = sh.productType]

\* The options of the four filter selects.
JournalFilters ==
    [broker : {"All", "Zerodha"}, segment : {"All", "Equity"},
     strategy : {"All", "Manual"},
     productType : {"All", "Intraday", "Delivery"}]

SortDirections == {"asc", "desc"}

\* A loaded session on the journal page: any sequence of up to MaxLen trades,
\* the filter selects on any of their options and the sort headers in any
\* state that clicks lead to.
InitJournal ==
    /\ \E len \in 0..MaxLen : \E shapes \in [1..len -> JournalShapes] :
            trades = [n \in 1..len |-> JournalTrade(n, shapes[n])]
    /\ brokers = INITIAL_BROKERS_DEFAULT
    /\ settings = ""
    /\ isLoading = FALSE
    /\ db = DbPutAll(EmptyStore, trades)
    /\ dbBrokers = EmptyStore
    /\ dbSettings = ""
    /\ ops = <<>>
    /\ tasks = <<>>
    /\ posts = <<>>
    /\ ai = TRUE
    /\ now = 0
    /\ page = "history"
    /\ \E f \in JournalFilters, field \in SortFields, dir \in SortDirections :
            ui = [DefaultUI("history") EXCEPT !.filter = f,
                                              !.sortField = field,
                                              !.sortDirection = dir]
    /\ outcome = NoOutcome
    /\ cmds = 0
    /\ view = NoView

\* TradeHistory renders: the groupedTrades memo under the filters and the
\* sort in use.
ShowJournal ==
    /\ ~isLoading
    /\ page = "history"
    /\ view' = [k |-> "journal", filter |-> ui.filter,
                field |-> ui.sortField, dir |-> ui.sortDirection,
                groups |-> GroupedTrades(trades, ui.filter, ui.sortField,
                                         ui.sortDirection)]
    /\ UNCHANGED <<trades, brokers, settings, isLoading, db, dbBrokers,
                   dbSettings, ops, tasks, posts, ai, now, page, ui,
                   outcome, cmds>>

NextJournal == ShowJournal

SpecJournal == InitJournal /\ [][NextJournal]_vars

-----------------------------------------------------------------------------
(* Analysis.tsx: statistics per strategy and per symbol over a date range,  *)
(* and the portfolio review asked of the model.                             *)

\* An empty date input, ''.
NoDay == -1

\* The days the date inputs are set to.
RangeDays == {0, 1}

\* new Date(dateRange.end).getTime() + 86400000: one day past the start of
\* the end day.
EndInstant(day) == day * DayLen + DayLen

\* filteredTrades: the trades from the start day to the end instant, both
\* bounds included.
FilteredByDate(ts, dateRange) ==
    IF dateRange.start = NoDay /\ dateRange.end = NoDay THEN ts
    ELSE LET start == IF dateRange.start # NoDay
                      THEN dateRange.start * DayLen ELSE 0
             Keep(t) == /\ t.date >= start
                        /\ dateRange.end # NoDay =>
                                t.date <= EndInstant(dateRange.end)
         IN SelectSeq(ts, Keep)

\* Math.round((wins / total) * 100)
RoundedPercent(wins, total) == (200 * wins + total) \div (2 * total)

\* The reducer of strategyStats on one trade.
AddToStrategyStat(s, trade) ==
    [s EXCEPT !.total = @ + 1,
              !.totalPnL = @ + trade.pnl,
              !.totalConfidence = @ + trade.confidence,
              !.wins = IF trade.pnl > 0 THEN @ + 1 ELSE @]

RECURSIVE StrategyStatsFrom(_, _)
StrategyStatsFrom(acc, ts) ==
    IF ts = <<>> THEN acc
    ELSE LET trade == ts[1]
             hit == {i \in 1..Len(acc) : acc[i].name = trade.strategy}
             new == [name |-> trade.strategy, wins |-> 0, total |-> 0,
                     totalPnL |-> 0, totalConfidence |-> 0]
         IN IF hit = {}
            THEN StrategyStatsFrom(Append(acc, AddToStrategyStat(new, trade)),
                                   Tail(ts))
            ELSE StrategyStatsFrom(
                    [i \in 1..Len(acc) |->
                        IF i \in hit THEN AddToStrategyStat(acc[i], trade)
                        ELSE acc[i]],
                    Tail(ts))

\* Object.values(strategyStats): the buckets in the order of their first
\* trades.
StrategyStats(ts) == StrategyStatsFrom(<<>>, ts)

\* (s.totalConfidence / s.total).toFixed(1), in tenths.
AvgConfidenceTenths(s) == (20 * s.totalConfidence + s.total) \div (2 * s.total)

ChartData(ts) ==
    LET stats == StrategyStats(ts)
    IN [i \in 1..Len(stats) |->
            [name |-> stats[i].name,
             winRate |-> RoundedPercent(stats[i].wins, stats[i].total),
             avgConfidence |-> AvgConfidenceTenths(stats[i]),
             totalPnL |-> stats[i].totalPnL]]

\* A reducer that counts a flat trade as a win.
AddToSymbolStatCountingFlat(s, trade) ==
    [s EXCEPT !.total = @ + 1,
              !.pnl = @ + trade.pnl,
              !.wins = IF trade.pnl >= 0 THEN @ + 1 ELSE @]

\* The reducer of symbolStatsRaw on one trade.
AddToSymbolStat(s, trade) ==
    [s EXCEPT !.total = @ + 1,
              !.pnl = @ + trade.pnl,
              !.wins = IF trade.pnl > 0 THEN @ + 1 ELSE @]

RECURSIVE SymbolStatsFrom(_, _)
SymbolStatsFrom(acc, ts) ==
    IF ts = <<>> THEN acc
    ELSE LET trade == ts[1]
             hit == {i \in 1..Len(acc) : acc[i].symbol = trade.symbol}
             new == [symbol |-> trade.symbol, pnl |-> 0, wins |-> 0,
                     total |-> 0]
         IN IF hit = {}
            THEN SymbolStatsFrom(Append(acc, AddToSymbolStat(new, trade)),
                                 Tail(ts))
            ELSE SymbolStatsFrom(
                    [i \in 1..Len(acc) |->
                        IF i \in hit THEN AddToSymbolStat(acc[i], trade)
                        ELSE acc[i]],
                    Tail(ts))

SymbolStatsRaw(ts) == SymbolStatsFrom(<<>>, ts)

\* .sort((a, b) => b.pnl - a.pnl): descending by pnl, stable.
RECURSIVE InsertByPnlDesc(_, _)
InsertByPnlDesc(sorted, s) ==
    IF sorted = <<>> THEN <<s>>
    ELSE IF sorted[1].pnl >= s.pnl
         THEN <<sorted[1]>> \o InsertByPnlDesc(Tail(sorted), s)
         ELSE <<s>> \o sorted

RECURSIVE SortByPnlFrom(_, _)
SortByPnlFrom(acc, stats) ==
    IF stats = <<>> THEN acc
    ELSE SortByPnlFrom(InsertByPnlDesc(acc, stats[1]), Tail(stats))

\* symbolData: each bucket with its rounded win rate, best pnl first.
SymbolData(ts) ==
    LET raw == SymbolStatsRaw(ts)
    IN SortByPnlFrom(<<>>,
            [i \in 1..Len(raw) |->
                [symbol |-> raw[i].symbol, pnl |-> raw[i].pnl,
                 wins |-> raw[i].wins, total |-> raw[i].total,
                 winRate |-> RoundedPercent(raw[i].wins, raw[i].total)]])

\* What the Analysis page computes on a render.
AnalysisView(ts, dateRange) ==
    LET filtered == FilteredByDate(ts, dateRange)
    IN [k |-> "analysis", filteredTrades |-> filtered,
        strategyStats |-> StrategyStats(filtered),
        chartData |-> ChartData(filtered),
        symbolStatsRaw |-> SymbolStatsRaw(filtered),
        symbolData |-> SymbolData(filtered)]

\* analyzePortfolio(stats): what it resolves to.
PortfolioAnswers(client) ==
    IF client
    THEN {"portfolio analysis", "Could not generate portfolio analysis.",
          "Error generating analysis."}
    ELSE {"AI Analysis Unavailable"}

\* A loaded session on the Analysis page whose collection is any sequence of
\* up to MaxLen trades.
InitAnalysis ==
    /\ \E len \in 0..MaxLen : \E shapes \in [1..len -> JournalShapes] :
            trades = [n \in 1..len |-> JournalTrade(n, shapes[n])]
    /\ brokers = INITIAL_BROKERS_DEFAULT
    /\ settings = ""
    /\ isLoading = FALSE
    /\ db = DbPutAll(EmptyStore, trades)
    /\ dbBrokers = EmptyStore
    /\ dbSettings = ""
    /\ ops = <<>>
    /\ tasks = <<>>
    /\ posts = <<>>
    /\ ai \in BOOLEAN
    /\ now = 0
    /\ page = "analysis"
    /\ ui = DefaultUI("analysis")
    /\ outcome = NoOutcome
    /\ cmds = 0
    /\ view = AnalysisView(trades, ui.dateRange)

\* The start or the end date input changes, or the range is cleared; the
\* page renders again.
SetDateRange(dateRange) ==
    /\ page = "analysis"
    /\ \/ dateRange = [ui.dateRange EXCEPT !.start = dateRange.start]
       \/ dateRange = [ui.dateRange EXCEPT !.end = dateRange.end]
       \/ dateRange = [start |-> NoDay, end |-> NoDay]
    /\ dateRange # ui.dateRange
    /\ ui' = [ui EXCEPT !.dateRange = dateRange]
    /\ view' = AnalysisView(trades, dateRange)
    /\ UNCHANGED <<trades, brokers, settings, isLoading, db, dbBrokers,
                   dbSettings, ops, tasks, posts, ai, now, page,
                   outcome, cmds>>

\* handleGenerateAnalysis up to `await analyzePortfolio(symbolData)`; the
\* button is disabled while loading and when there are no statistics.
HandleGenerateAnalysis ==
    /\ page = "analysis"
    /\ ~ui.loading
    /\ view.symbolData # <<>>
    /\ ui' = [ui EXCEPT !.loading = TRUE]
    /\ tasks' = Append(tasks, [k |-> "portfolio", stats |-> view.symbolData])
    /\ UNCHANGED <<trades, brokers, settings, isLoading, db, dbBrokers,
                   dbSettings, ops, posts, ai, now, page,
                   outcome, cmds, view>>

\* handleGenerateAnalysis after analyzePortfolio resolved.
PortfolioReturn(feedback) ==
    /\ page = "analysis"
    /\ tasks # <<>>
    /\ tasks[1].k = "portfolio"
    /\ feedback \in PortfolioAnswers(ai)
    /\ ui' = [ui EXCEPT !.loading = FALSE, !.aiFeedback = feedback]
    /\ tasks' = Tail(tasks)
    /\ UNCHANGED <<trades, brokers, settings, isLoading, db, dbBrokers,
                   dbSettings, ops, posts, ai, now, page,
                   outcome, cmds, view>>

NextAnalysis ==
    \/ \E start, end \in RangeDays \cup {NoDay} :
            SetDateRange([start |-> start, end |-> end])
    \/ HandleGenerateAnalysis
    \/ \E feedback \in PortfolioAnswers(ai) : PortfolioReturn(feedback)

SpecAnalysis == InitAnalysis /\ [][NextAnalysis]_vars

-----------------------------------------------------------------------------
(* geminiService.ts parseTradebook, called with any answer of the service   *)
(* and any broker hint.                                                     *)

\* The rows an answer is made of.
ImportRows ==
    { RawRow(1, "INFY", 100, 110, 10, 100, "F&O"),
      RawRow(0, "tcs", 120, 100, 1, -21, ""),
      RawRow(2, "TCS", 100, 100, 5, 0, "Equity") }

\* parseTradebook(csvText, broker) resolves: the service answered rawTrades
\* and the rows were mapped to trades.
ParseTradebookCall(rawTrades, broker) ==
    /\ ai
    /\ view' = [k |-> "parsed", rawTrades |-> rawTrades, broker |-> broker,
                trades |-> ParseTradebook(rawTrades, broker, now)]
    /\ UNCHANGED <<trades, brokers, settings, isLoading, db, dbBrokers,
                   dbSettings, ops, tasks, posts, ai, now, page, ui,
                   outcome, cmds>>

NextImport ==
    \/ LoadData
    \/ Tick
    \/ \E len \in 0..MaxLen : \E rawTrades \in [1..len -> ImportRows] :
            \E broker \in ActedBrokers : ParseTradebookCall(rawTrades, broker)

SpecImport == InitBrokers /\ [][NextImport]_vars

-----------------------------------------------------------------------------
(* geminiService.ts parseTradebook on a tradebook of orders: the CSV text   *)
(* goes into the prompt, the service is asked to match the orders, and its  *)
(* JSON answer is mapped to trades as it comes.                             *)

\* An order line of a tradebook CSV.
Order(side, symbol, price, quantity, time) ==
    [side |-> side, symbol |-> symbol, price |-> price,
     quantity |-> quantity, time |-> time]

\* The tradebooks a file holds: one with a partly filled exit, one closed
\* round trip, one open position only, and an empty one.
Tradebooks ==
    { << Order("BUY", "TCS", 100, 5, 0), Order("BUY", "TCS", 105, 5, 1),
         Order("SELL", "TCS", 120, 8, 2) >>,
      << Order("BUY", "INFY", 100, 10, 0), Order("SELL", "INFY", 110, 10, 1) >>,
      << Order("BUY", "TCS", 100, 5, 0) >>,
      <<>> }

\* The rows an answer of the service to a tradebook is made of.  The
\* response schema asks for date, symbol, the two prices, quantity, pnl and
\* segment; nothing ties the figures to the orders beyond the prompt.  The
\* rows here pair a price of a buy with a price and the time of a sell of
\* the same symbol, for a quantity of either order.
AnswerRows(csv) ==
    { RawRow(csv[s].time, csv[s].symbol, csv[b].price, csv[s].price, q,
             (csv[s].price - csv[b].price) * q, "Equity") :
        <<b, s, q>> \in
            { x \in (1..Len(csv)) \X (1..Len(csv)) \X (1..10) :
                /\ csv[x[1]].side = "BUY" /\ csv[x[2]].side = "SELL"
                /\ csv[x[1]].symbol = csv[x[2]].symbol
                /\ x[3] \in {csv[x[1]].quantity, csv[x[2]].quantity,
                             csv[x[2]].quantity - csv[x[1]].quantity} } }

\* parseTradebook(csvText, broker) resolves for a tradebook: the service
\* answered rawTrades and the rows were mapped to trades.
ParseTradebookOf(csv, rawTrades, broker) ==
    /\ ai
    /\ view' = [k |-> "matched", csv |-> csv, broker |-> broker,
                trades |-> ParseTradebook(rawTrades, broker, now)]
    /\ UNCHANGED <<trades, brokers, settings, isLoading, db, dbBrokers,
                   dbSettings, ops, tasks, posts, ai, now, page, ui,
                   outcome, cmds>>

NextMatcher ==
    \/ LoadData
    \/ \E csv \in Tradebooks : \E len \in 0..MaxLen :
            \E rawTrades \in [1..len -> AnswerRows(csv)] :
                ParseTradebookOf(csv, rawTrades, "Zerodha")

SpecMatcher == InitBrokers /\ [][NextMatcher]_vars

-----------------------------------------------------------------------------
(* NewTrade.tsx: a manual entry, analysed and then added.                   *)

\* A variant of analyzeTrade that lets the service's error through.
AnalyzeTradeRethrowing(client) ==
    IF client
    THEN {[k |-> "resolved", text |-> "analysis"],
          [k |-> "rejected", text |-> ""]}
    ELSE {[k |-> "resolved", text |-> "AI Analysis Unavailable"]}

\* analyzeTrade(trade): how its promise settles.  Without a client it
\* returns the placeholder; the call to the service is inside try/catch and
\* the catch returns the error text.
AnalyzeTrade(client) ==
    {[k |-> "resolved", text |-> a] : a \in AnalyzeAnswers(client)}

\* The exit prices typed into the form.
FormExits == {110, 90}

\* handleSubmit up to `await analyzeTrade(newTrade)`; the submit button is
\* disabled while loading.
HandleSubmit(exit) ==
    /\ CanCommand
    /\ page = "new-trade"
    /\ ~ui.loading
    /\ ui' = [ui EXCEPT !.loading = TRUE, !.feedback = ""]
    /\ tasks' = Append(tasks, [k |-> "analyze",
                               trade |-> ManualTrade(now, exit, "")])
    /\ cmds' = cmds + 1
    /\ UNCHANGED <<trades, brokers, settings, isLoading, db, dbBrokers,
                   dbSettings, ops, posts, ai, now, page, outcome, view>>

\* handleSubmit after analyzeTrade settled: addTrade is called and not
\* awaited, then setFeedback and setLoading(false).  handleSubmit has no
\* catch: were the promise rejected, the rest would not run.
AnalyzeTradeSettles(result) ==
    /\ page = "new-trade"
    /\ tasks # <<>>
    /\ tasks[1].k = "analyze"
    /\ result \in AnalyzeTrade(ai)
    /\ IF result.k = "resolved"
       THEN /\ ops' = Append(ops, StoreCall("addTrade",
                        <<[tasks[1].trade EXCEPT !.aiAnalysis = result.text]>>,
                        settings, "none"))
            /\ ui' = [ui EXCEPT !.loading = FALSE, !.feedback = result.text]
       ELSE UNCHANGED <<ops, ui>>
    /\ tasks' = Tail(tasks)
    /\ UNCHANGED <<trades, brokers, settings, isLoading, db, dbBrokers,
                   dbSettings, posts, ai, now, page, outcome, cmds, view>>

InitNewTrade ==
    /\ InitOn("new-trade")
    /\ db = SeedDb
    /\ dbBrokers = EmptyStore

NextNewTrade ==
    \/ LoadData
    \/ DbWriteOk
    \/ DbWriteFail
    \/ DbWriteAbort
    \/ OpComplete
    \/ \E exit \in FormExits : HandleSubmit(exit)
    \/ \E result \in AnalyzeTrade(ai) : AnalyzeTradeSettles(result)

SpecNewTrade == InitNewTrade /\ [][NextNewTrade]_vars

-----------------------------------------------------------------------------
(* The derived views over any trade collection: Dashboard's getMetrics()    *)
(* and TradeHistory's groupedTrades.                                        *)

\* What a trade of the collection is drawn from: two instants of one day and
\* one of the next; a win, a loss and a flat trade of one symbol at one
\* broker, a win of another symbol there, a win and a loss at another broker.
ViewDates == {0, 1, 2}
ViewKinds ==
    { [symbol |-> "TCS", broker |-> "Zerodha", pnl |-> 50, quantity |-> 10],
      [symbol |-> "TCS", broker |-> "Zerodha", pnl |-> -20, quantity |-> 1],
      [symbol |-> "TCS", broker |-> "Zerodha", pnl |-> 0, quantity |-> 1],
      [symbol |-> "INFY", broker |-> "Zerodha", pnl |-> 50, quantity |-> 10],
      [symbol |-> "TCS", broker |-> "Fyers", pnl |-> 50, quantity |-> 10],
      [symbol |-> "TCS", broker |-> "Fyers", pnl |-> -20, quantity |-> 1] }

ViewShapes == ViewDates \X ViewKinds

\* The n-th trade of a collection, of shape sh.
ViewTrade(n, sh) ==
    Trade(SeedId(n), sh[1], sh[2].symbol, sh[2].broker, 100, 100,
          sh[2].quantity, sh[2].pnl, "Equity", 5, "Manual", "", "", "")

\* The collection of the trades of the given shapes, in their order.
ViewCollection(shapes) == [n \in 1..Len(shapes) |-> ViewTrade(n, shapes[n])]

ViewFilters == {NoFilter, [NoFilter EXCEPT !.broker = "Zerodha"]}

\* A loaded session whose collection is any sequence of up to MaxLen trades
\* (addTrade prepends, so every order of the records is one the store can
\* hold).
InitViews ==
    /\ \E len \in 0..MaxLen : \E shapes \in [1..len -> ViewShapes] :
            trades = ViewCollection(shapes)
    /\ brokers = INITIAL_BROKERS_DEFAULT
    /\ settings = ""
    /\ isLoading = FALSE
    /\ db = DbPutAll(EmptyStore, trades)
    /\ dbBrokers = EmptyStore
    /\ dbSettings = ""
    /\ ops = <<>>
    /\ tasks = <<>>
    /\ posts = <<>>
    /\ ai = TRUE
    /\ now = 0
    /\ page = "dashboard"
    /\ ui = DefaultUI("dashboard")
    /\ outcome = NoOutcome
    /\ cmds = 0
    /\ view = NoView

\* Dashboard renders: const metrics = getMetrics()
ShowMetrics ==
    /\ ~isLoading
    /\ view' = [k |-> "metrics", metrics |-> GetMetrics(trades, now)]
    /\ UNCHANGED <<trades, brokers, settings, isLoading, db, dbBrokers,
                   dbSettings, ops, tasks, posts, ai, now, page, ui,
                   outcome, cmds>>

\* TradeHistory renders: the groupedTrades memo under filter f and the
\* default sort.
ShowGroups(f) ==
    /\ ~isLoading
    /\ view' = [k |-> "groups", filter |-> f,
                groups |-> GroupedTrades(trades, f, "date", "desc")]
    /\ UNCHANGED <<trades, brokers, settings, isLoading, db, dbBrokers,
                   dbSettings, ops, tasks, posts, ai, now, page, ui,
                   outcome, cmds>>

NextViews ==
    \/ ShowMetrics
    \/ \E f \in ViewFilters : ShowGroups(f)

SpecViews == InitViews /\ [][NextViews]_vars

-----------------------------------------------------------------------------
(* Dashboard.tsx: the metrics and the cumulative PnL series, rendered again *)
(* whenever the page renders.                                               *)

\* Calendar days the clock may pass.
MaxDays == 1

\* .sort((a, b) => new Date(a.date) - new Date(b.date)): stable, ascending.
RECURSIVE InsertByDateAsc(_, _)
InsertByDateAsc(sorted, t) ==
    IF sorted = <<>> THEN <<t>>
    ELSE IF sorted[1].date <= t.date
         THEN <<sorted[1]>> \o InsertByDateAsc(Tail(sorted), t)
         ELSE <<t>> \o sorted

RECURSIVE SortAscFrom(_, _)
SortAscFrom(acc, s) ==
    IF s = <<>> THEN acc ELSE SortAscFrom(InsertByDateAsc(acc, s[1]), Tail(s))

\* trades.slice().sort(...): a sorted copy; trades itself is not touched.
SortByDateAsc(s) == SortAscFrom(<<>>, s)

\* A running sum that stops one trade short.
CumulativePnLBefore(array, index) == SumSeq(PnlOf(SubSeq(array, 1, index)))

\* array.slice(0, index + 1).reduce((sum, t) => sum + t.pnl, 0)
CumulativePnL(array, index) == SumSeq(PnlOf(SubSeq(array, 1, index + 1)))

\* pnlData: one point per trade of the sorted copy (index from 0).
PnlPoint(trade, index, array) ==
    [date |-> DayOf(trade.date), time |-> trade.date % DayLen,
     pnl |-> CumulativePnL(array, index), rawDate |-> trade.date,
     symbol |-> trade.symbol, strategy |-> trade.strategy,
     confidence |-> trade.confidence, tradePnL |-> trade.pnl,
     broker |-> trade.broker]

PnlData(ts) ==
    LET array == SortByDateAsc(ts)
    IN [n \in 1..Len(array) |-> PnlPoint(array[n], n - 1, array)]

\* The calendar day changes while the page stays open.
Midnight ==
    /\ DayOf(now) < MaxDays
    /\ now' = (DayOf(now) + 1) * DayLen
    /\ UNCHANGED <<trades, brokers, settings, isLoading, db, dbBrokers,
                   dbSettings, ops, tasks, posts, ai, page, ui,
                   outcome, cmds, view>>

\* Dashboard renders: pnlData
ShowSeries ==
    /\ ~isLoading
    /\ view' = [k |-> "series", metrics |-> GetMetrics(trades, now),
                series |-> PnlData(trades)]
    /\ UNCHANGED <<trades, brokers, settings, isLoading, db, dbBrokers,
                   dbSettings, ops, tasks, posts, ai, now, page, ui,
                   outcome, cmds>>

\* The dashboard is followed over the collections of one broker's trades.
DashboardShapes == {sh \in ViewShapes : sh[2].broker = "Zerodha"}

InitDashboard ==
    /\ \E len \in 0..MaxLen : \E shapes \in [1..len -> DashboardShapes] :
            trades = ViewCollection(shapes)
    /\ brokers = INITIAL_BROKERS_DEFAULT
    /\ settings = ""
    /\ isLoading = FALSE
    /\ db = DbPutAll(EmptyStore, trades)
    /\ dbBrokers = EmptyStore
    /\ dbSettings = ""
    /\ ops = <<>>
    /\ tasks = <<>>
    /\ posts = <<>>
    /\ ai = TRUE
    /\ now = 0
    /\ page = "dashboard"
    /\ ui = DefaultUI("dashboard")
    /\ outcome = NoOutcome
    /\ cmds = 0
    /\ view = NoView

NextDashboard ==
    \/ ShowMetrics
    \/ ShowSeries
    \/ Midnight

SpecDashboard == InitDashboard /\ [][NextDashboard]_vars

-----------------------------------------------------------------------------
(* Properties of the store functions *)

\* C1: the in-memory trade collection is never ahead of the persisted store:
\* every record id held in memory is the id of a record of the store.
C1_MemoryNotAheadOfStore == Ids(trades) \subseteq DOMAIN db

\* C2: a persistence failure is surfaced to the caller: when the write of a
\* store function was rejected, the caller observes a rejected promise and
\* does not report a successful sync.
C2_FailureSurfaced ==
    outcome.st = "fail" =>
        /\ outcome.promise = "rejected"
        /\ outcome.reported # "sync_ok"

\* C3: trade ids are unique: no two records of the in-memory collection share
\* an id.
C3_UniqueIds ==
    \A i, j \in 1..Len(trades) : trades[i].id = trades[j].id => i = j

\* C6: trades are never deleted: once the initial load has completed, every
\* id of the in-memory collection stays in it and the number of records
\* never decreases.
C6_NeverDeleted ==
    [][~isLoading => /\ Ids(trades) \subseteq Ids(trades')
                     /\ Len(trades') >= Len(trades)]_vars

\* A settled updateTradesBulk over a collection that holds the seed trade and
\* a trade added since.
C6_Witness ==
    /\ outcome.fn = "updateTradesBulk"
    /\ outcome.st = "ok"
    /\ Len(trades) >= 2
    /\ \E n \in 1..Len(trades) : trades[n] = EditedSeed

-----------------------------------------------------------------------------
(* Properties of the Brokers page *)

\* The CSV imports whose file is being read or parsed.
PendingImports == {i \in 1..Len(tasks) : tasks[i].k = "parse"}

\* The syncs of broker b that await the fetch or the import of its trades.
PendingSyncs(b) ==
    {<<"fetch", i>> : i \in {n \in 1..Len(tasks) :
                                tasks[n].k = "sync" /\ tasks[n].broker = b}}
    \cup
    {<<"import", i>> : i \in {n \in 1..Len(ops) :
                                 ops[n].then = "sync" /\ ops[n].broker = b}}

\* C5: import and sync are single-flight: at most one CSV import is pending,
\* and for every broker at most one sync of it is pending.
C5_SingleFlight ==
    /\ Cardinality(PendingImports) <= 1
    /\ \A b \in ActedBrokers : Cardinality(PendingSyncs(b)) <= 1

-----------------------------------------------------------------------------
(* Properties of the journal page *)

\* C4: a stale AI response is ignored or merged: when the store call of
\* runAnalysis settles, every in-memory trade keeps its strategy, confidence,
\* notes and mistake (an edit saved while the analysis was awaited included);
\* only aiAnalysis changes.
C4_StaleAnalysisMerged ==
    [][(ops # <<>> /\ ops[1].then = "runAnalysis" /\ ops' = Tail(ops)) =>
          /\ Len(trades') = Len(trades)
          /\ \A n \in 1..Len(trades) :
                trades'[n] = [trades[n] EXCEPT
                                 !.aiAnalysis = trades'[n].aiAnalysis]]_vars

-----------------------------------------------------------------------------
(* Properties of the derived views *)

\* How many times trade t occurs in the groups gs.
Occurrences(gs, t) ==
    SumSeq([g \in 1..Len(gs) |->
               Len(SelectSeq(gs[g].trades, LAMBDA x : x.id = t.id))])

\* C7: grouping completeness: with all four filters 'All', each trade is in
\* exactly one group, the groups' totalPnL sum to the trades' pnl and the
\* groups' totalQty sum to the trades' quantity.
C7_GroupingComplete ==
    (view.k = "groups" /\ view.filter = NoFilter) =>
        /\ \A n \in 1..Len(trades) : Occurrences(view.groups, trades[n]) = 1
        /\ SumSeq([g \in 1..Len(view.groups) |-> view.groups[g].totalPnL])
              = SumSeq(PnlOf(trades))
        /\ SumSeq([g \in 1..Len(view.groups) |-> view.groups[g].totalQty])
              = SumSeq(QtyOf(trades))

\* Three trades in two groups, one of them of two trades, grouped unfiltered.
C7_Witness ==
    /\ view.k = "groups" /\ view.filter = NoFilter
    /\ Len(trades) = 3
    /\ Len(view.groups) = 2
    /\ SumSeq(PnlOf(trades)) = 80

\* C8: two trades are in the same group iff they have the same calendar day,
\* symbol and broker; each group's totalPnL and totalQty are the sums over
\* its trades (+50 and -20 of one day, symbol and broker: one group, 30).
C8_GroupedByDaySymbolBroker ==
    view.k = "groups" =>
        LET shown == {n \in 1..Len(trades) : PassesFilter(trades[n], view.filter)}
            Together(i, j) ==
                \E g \in 1..Len(view.groups) :
                    {trades[i].id, trades[j].id} \subseteq Ids(view.groups[g].trades)
        IN /\ \A i, j \in shown :
                Together(i, j) <=>
                    /\ DayOf(trades[i].date) = DayOf(trades[j].date)
                    /\ trades[i].symbol = trades[j].symbol
                    /\ trades[i].broker = trades[j].broker
           /\ \A g \in 1..Len(view.groups) :
                /\ view.groups[g].totalPnL = SumSeq(PnlOf(view.groups[g].trades))
                /\ view.groups[g].totalQty = SumSeq(QtyOf(view.groups[g].trades))

\* +50 and -20 at two instants of one day, same symbol and broker, in one
\* group of total 30; a third trade of that day and symbol at another broker
\* in a group of its own.
C8_Witness ==
    /\ view.k = "groups" /\ view.filter = NoFilter
    /\ Len(trades) = 3
    /\ trades[1].date # trades[2].date
    /\ \A n \in 1..3 : DayOf(trades[n].date) = 0 /\ trades[n].symbol = "TCS"
    /\ trades[1].broker = "Zerodha" /\ trades[2].broker = "Zerodha"
    /\ trades[3].broker = "Fyers"
    /\ trades[1].pnl = 50 /\ trades[2].pnl = -20
    /\ \E g \in 1..Len(view.groups) :
            Len(view.groups[g].trades) = 2 /\ view.groups[g].totalPnL = 30

\* C9: getMetrics returns totalTrades = number of trades, totalPnL = sum of
\* pnl, winRate = (trades with pnl > 0) / totalTrades * 100 and
\* avgTradeValue = totalPnL / totalTrades; a flat trade is no win, winRate
\* is within [0, 100], and for the empty collection totalPnL, winRate,
\* avgTradeValue, totalTrades and tradesToday are 0.
C9_Metrics ==
    view.k = "metrics" =>
        LET m == view.metrics
            total == Len(trades)
            wins == Cardinality({n \in 1..Len(trades) : trades[n].pnl > 0})
        IN /\ m.totalTrades = total
           /\ m.totalPnL = SumSeq(PnlOf(trades))
           /\ total > 0 => /\ QEq(m.winRate, <<wins * 100, total>>)
                           /\ QEq(m.avgTradeValue, <<m.totalPnL, total>>)
           /\ QLe(Zero, m.winRate) /\ QLe(m.winRate, <<100, 1>>)
           /\ total = 0 => /\ m.totalPnL = 0
                           /\ QEq(m.winRate, Zero)
                           /\ QEq(m.avgTradeValue, Zero)
                           /\ m.tradesToday = 0

\* The metrics of a win, a flat trade and a loss: winRate 100/3, average 10.
C9_Witness ==
    /\ view.k = "metrics"
    /\ Len(trades) = 3
    /\ {trades[n].pnl : n \in 1..3} = {50, 0, -20}
    /\ QEq(view.metrics.winRate, <<100, 3>>)
    /\ QEq(view.metrics.avgTradeValue, <<10, 1>>)

\* The summed pnl of broker b's trades, and the place of its first trade.
PnlAt(b) == SumSeq(PnlOf(SelectSeq(trades, LAMBDA t : t.broker = b)))
FirstAt(b) == CHOOSE n \in 1..Len(trades) :
                /\ trades[n].broker = b
                /\ \A k \in 1..(n - 1) : trades[k].broker # b

\* C10: bestBroker is 'N/A' exactly when there are no trades; otherwise it
\* is a broker with trades whose summed pnl is maximal, and among the brokers
\* with that sum the one whose first trade comes first.
C10_BestBroker ==
    view.k = "metrics" =>
        LET best == view.metrics.bestBroker
            trading == {trades[n].broker : n \in 1..Len(trades)}
        IN /\ best = "N/A" <=> trades = <<>>
           /\ trades # <<>> =>
                /\ best \in trading
                /\ \A b \in trading :
                      /\ PnlAt(b) <= PnlAt(best)
                      /\ PnlAt(b) = PnlAt(best) => FirstAt(best) <= FirstAt(b)

\* Two brokers tie on a negative sum; the one met first is the best broker.
C10_Witness ==
    /\ view.k = "metrics"
    /\ Len(trades) = 3
    /\ trades[1].broker = "Fyers"
    /\ PnlAt("Fyers") = -20 /\ PnlAt("Zerodha") = -20
    /\ view.metrics.bestBroker = "Fyers"

-----------------------------------------------------------------------------
(* Properties of the dashboard *)

\* C11: aggregation is a pure function of the trade collection: a second
\* getMetrics over the unchanged collection returns the result of the first
\* in every field, whatever happened in between, and no aggregation pass
\* changes the collection.
C11_AggregationPure ==
    [][/\ trades' = trades
       /\ (view.k = "metrics" /\ view'.k = "metrics") =>
              view'.metrics = view.metrics]_vars

\* How many trades of ts have the date, symbol, broker and pnl of point p.
TradesLike(ts, p) ==
    Cardinality({n \in 1..Len(ts) :
                    /\ ts[n].date = p.rawDate /\ ts[n].symbol = p.symbol
                    /\ ts[n].broker = p.broker /\ ts[n].pnl = p.tradePnL})

\* How many points of series have the date, symbol, broker and pnl of p.
PointsLike(series, p) ==
    Cardinality({n \in 1..Len(series) :
                    /\ series[n].rawDate = p.rawDate
                    /\ series[n].symbol = p.symbol
                    /\ series[n].broker = p.broker
                    /\ series[n].tradePnL = p.tradePnL})

\* C16: the cumulative PnL series has one point per trade, in ascending order
\* of trade date; each point is the sum of pnl of the trades up to it, so it
\* differs from the previous point by its trade's pnl and the last point is
\* getMetrics().totalPnL.
C16_CumulativeSeries ==
    view.k = "series" =>
        LET series == view.series
        IN /\ Len(series) = Len(trades)
           /\ \A i \in 1..Len(series) :
                 TradesLike(trades, series[i]) = PointsLike(series, series[i])
           /\ \A i \in 1..(Len(series) - 1) :
                 series[i].rawDate <= series[i + 1].rawDate
           /\ \A i \in 1..Len(series) :
                 series[i].pnl = (IF i = 1 THEN 0 ELSE series[i - 1].pnl)
                                 + series[i].tradePnL
           /\ series # <<>> => series[Len(series)].pnl = view.metrics.totalPnL

\* The series of three trades held out of date order: 50, then 30, then 30.
C16_Witness ==
    /\ view.k = "series"
    /\ Len(trades) = 3
    /\ trades[1].date = 2 /\ trades[2].date = 0 /\ trades[3].date = 1
    /\ [i \in 1..3 |-> view.series[i].pnl] = <<50, 30, 30>>

-----------------------------------------------------------------------------
(* Properties of the journal's sort and filter controls *)

\* The sort state of the journal.
SortNow == <<ui.sortField, ui.sortDirection>>

Flipped(dir) == IF dir = "asc" THEN "desc" ELSE "asc"

\* Each click did what handleSort is said to do: flip the direction of the
\* field in use, or switch to the clicked field, descending.
ClicksAsStated ==
    /\ view.k # "sort" => SortNow = <<"date", "desc">>
    /\ view.k = "sort" =>
         LET last == view.clicks[Len(view.clicks)]
         IN /\ last.field = last.from[1] =>
                  SortNow = <<last.field, Flipped(last.from[2])>>
            /\ last.field # last.from[1] => SortNow = <<last.field, "desc">>
            /\ Len(view.clicks) = 2 => view.clicks[2].from =
                  SortAfter(view.clicks[1].field, view.clicks[1].from[1],
                            view.clicks[1].from[2])

\* C12 as stated: the sort starts at (date, desc); a click on the field in
\* use flips the direction, a click on another field selects it, descending;
\* two consecutive clicks on the same field restore the previous state.
C12_AnyFieldTwiceRestores ==
    /\ ClicksAsStated
    /\ (view.k = "sort" /\ Len(view.clicks) = 2
        /\ view.clicks[1].field = view.clicks[2].field) =>
            SortNow = view.clicks[1].from

\* C12, amended: as stated, but two consecutive clicks restore the previous
\* state only when they are on the field in use; on another field f they
\* end at (f, asc).
C12_SortControl ==
    /\ ClicksAsStated
    /\ (view.k = "sort" /\ Len(view.clicks) = 2
        /\ view.clicks[1].field = view.clicks[2].field) =>
            IF view.clicks[1].field = view.clicks[1].from[1]
            THEN SortNow = view.clicks[1].from
            ELSE SortNow = <<view.clicks[1].field, "asc">>

\* Two clicks on the field in use, out of (symbol, asc) and back to it.
C12_Witness ==
    /\ view.k = "sort" /\ Len(view.clicks) = 2
    /\ view.clicks[1].field = "symbol" /\ view.clicks[2].field = "symbol"
    /\ view.clicks[1].from = <<"symbol", "asc">>
    /\ SortNow = <<"symbol", "asc">>

\* The groups of the trades that pass the filter in use, in the order of
\* their first trades.
Unsorted == GroupArray(FilteredTrades(trades, view.filter))

\* The place of the group with a given key among the unsorted groups.
FirstAppearance(id) == CHOOSE i \in 1..Len(Unsorted) : Unsorted[i].id = id

\* What a group is ordered by: symbol and broker without regard to case,
\* the date as an instant, the totals as numbers.
FieldKey(g, field) ==
    CASE field = "date" -> g.date
      [] field = "symbol" -> LowerRank(g.symbol)
      [] field = "broker" -> LowerRank(g.broker)
      [] field = "totalPnL" -> g.totalPnL
      [] field = "totalQty" -> g.totalQty

\* C13: the displayed list is a permutation of the groups, ordered by the
\* selected field in the selected direction (symbol and broker without
\* regard to case, date by instant, totals as numbers); groups that compare
\* equal keep their order of first appearance, in both directions.
C13_SortedStable ==
    view.k = "journal" =>
        /\ Len(view.groups) = Len(Unsorted)
        /\ Range(view.groups) = Range(Unsorted)
        /\ \A i, j \in 1..Len(view.groups) : i < j =>
             LET a == FieldKey(view.groups[i], view.field)
                 b == FieldKey(view.groups[j], view.field)
             IN /\ view.dir = "asc" => a <= b
                /\ view.dir = "desc" => a >= b
                /\ a = b => FirstAppearance(view.groups[i].id)
                                < FirstAppearance(view.groups[j].id)

\* Sorted by symbol, descending: TCS and tcs compare equal and stay in the
\* order they first appeared, ahead of INFY.
C13_Witness ==
    /\ view.k = "journal" /\ view.field = "symbol" /\ view.dir = "desc"
    /\ view.filter = NoFilter
    /\ Len(trades) = 3
    /\ [i \in 1..3 |-> trades[i].symbol] = <<"INFY", "tcs", "TCS">>
    /\ Len(view.groups) = 3
    /\ [i \in 1..3 |-> view.groups[i].symbol] = <<"tcs", "TCS", "INFY">>

\* A trade matches a filter setting when it has the value of every filter
\* that is not 'All', no product type counting as 'Delivery'.
Matches(t, f) ==
    /\ f.broker = "All" \/ t.broker = f.broker
    /\ f.segment = "All" \/ t.segment = f.segment
    /\ f.strategy = "All" \/ t.strategy = f.strategy
    /\ \/ f.productType = "All"
       \/ f.productType = (IF t.productType = "" THEN "Delivery"
                           ELSE t.productType)

\* C14: a trade contributes to the displayed groups if and only if it
\* matches every filter that is not 'All'; a trade with no product type is
\* treated as 'Delivery'.
C14_FiltersConjunctive ==
    view.k = "journal" =>
        \A n \in 1..Len(trades) :
            Occurrences(view.groups, trades[n])
                = IF Matches(trades[n], view.filter) THEN 1 ELSE 0

\* Under broker Zerodha and product type Delivery, a Zerodha trade with no
\* product type is shown; an Intraday one and a Fyers one with no product
\* type are not.
C14_Witness ==
    /\ view.k = "journal"
    /\ view.filter = [NoFilter EXCEPT !.broker = "Zerodha",
                                      !.productType = "Delivery"]
    /\ Len(trades) = 3
    /\ trades[1].productType = "" /\ trades[1].broker = "Zerodha"
    /\ trades[2].productType = "Intraday" /\ trades[2].broker = "Zerodha"
    /\ trades[3].productType = "" /\ trades[3].broker = "Fyers"
    /\ Len(view.groups) = 1
    /\ view.groups[1].trades = <<trades[1]>>

\* C15: every group displayed under a filter setting has the trades and the
\* totals that the group of the same (day, symbol, broker) key has when no
\* filter is active.
C15_WholeGroups ==
    view.k = "journal" =>
        \A i \in 1..Len(view.groups) :
            \E j \in 1..Len(GroupArray(trades)) :
                LET g == view.groups[i]
                    whole == GroupArray(trades)[j]
                IN /\ whole.id = g.id
                   /\ whole.trades = g.trades
                   /\ whole.totalPnL = g.totalPnL
                   /\ whole.totalQty = g.totalQty

-----------------------------------------------------------------------------
(* Properties of the Analysis page *)

\* The buckets partition n trades with w wins and a pnl of p.
Partitions(buckets, pnls, n, w, p) ==
    /\ SumSeq([i \in 1..Len(buckets) |-> buckets[i].total]) = n
    /\ SumSeq([i \in 1..Len(buckets) |-> buckets[i].wins]) = w
    /\ SumSeq(pnls) = p
    /\ \A i \in 1..Len(buckets) :
            /\ buckets[i].total >= 1
            /\ 0 <= buckets[i].wins
            /\ buckets[i].wins <= buckets[i].total

\* C17: the per-strategy and the per-symbol statistics partition the
\* date-filtered trades: over all buckets the totals sum to the number of
\* trades, the wins to the number of trades with pnl > 0 and the PnL to the
\* total pnl, and every bucket has 0 <= wins <= total and total >= 1; each
\* trade falls in the one bucket of its strategy and the one of its symbol.
C17_StatsPartition ==
    view.k = "analysis" =>
        LET ts == FilteredByDate(trades, ui.dateRange)
            n == Len(ts)
            w == Cardinality({i \in 1..Len(ts) : ts[i].pnl > 0})
            p == SumSeq(PnlOf(ts))
            st == view.strategyStats
            sy == view.symbolStatsRaw
        IN /\ Partitions(st, [i \in 1..Len(st) |-> st[i].totalPnL], n, w, p)
           /\ Partitions(sy, [i \in 1..Len(sy) |-> sy[i].pnl], n, w, p)
           /\ \A i \in 1..Len(ts) :
                /\ Cardinality({b \in 1..Len(st) :
                                    st[b].name = ts[i].strategy}) = 1
                /\ Cardinality({b \in 1..Len(sy) :
                                    sy[b].symbol = ts[i].symbol}) = 1
           /\ \A b \in 1..Len(sy) :
                sy[b].wins = Cardinality({i \in 1..Len(ts) :
                    ts[i].symbol = sy[b].symbol /\ ts[i].pnl > 0})
           /\ \A b \in 1..Len(st) :
                st[b].wins = Cardinality({i \in 1..Len(ts) :
                    ts[i].strategy = st[b].name /\ ts[i].pnl > 0})

\* A range from the second day on leaves the first of three trades out; the
\* two left are a win and a flat trade of two symbols and one strategy.
C17_Witness ==
    /\ view.k = "analysis"
    /\ ui.dateRange = [start |-> 1, end |-> NoDay]
    /\ Len(trades) = 3
    /\ view.filteredTrades = SubSeq(trades, 2, 3)
    /\ view.symbolStatsRaw =
            << [symbol |-> "INFY", pnl |-> 50, wins |-> 1, total |-> 1],
               [symbol |-> "TCS", pnl |-> 0, wins |-> 0, total |-> 1] >>
    /\ Len(view.strategyStats) = 1
    /\ view.strategyStats[1].total = 2 /\ view.strategyStats[1].wins = 1

\* C18: the win rate of the per-symbol statistics handed to analyzePortfolio
\* equals wins/total*100, unrounded.
C18_WinRateUnrounded ==
    \A i \in 1..Len(tasks) :
        tasks[i].k = "portfolio" =>
            \A n \in 1..Len(tasks[i].stats) :
                LET s == tasks[i].stats[n]
                IN QEq(Quot(s.winRate, 1), Quot(100 * s.wins, s.total))

-----------------------------------------------------------------------------
(* Properties of the trades that enter the collection *)

\* C19: every trade of the collection, whether it came in through import,
\* broker sync or manual entry and whether or not it was edited since, has
\* pnl = (exitPrice - entryPrice) * quantity.
C19_PnlExact ==
    \A n \in 1..Len(trades) :
        trades[n].pnl
            = (trades[n].exitPrice - trades[n].entryPrice) * trades[n].quantity

\* C20: every trade returned by the import has confidence 5, strategy
\* 'Manual', the broker hint of the call, the note of an imported trade and
\* the parsed segment, or 'Equity' when that is missing; the list has one
\* trade per parsed row, in the same order.
C20_ImportDefaults ==
    view.k = "parsed" =>
        /\ Len(view.trades) = Len(view.rawTrades)
        /\ \A n \in 1..Len(view.trades) :
            LET t == view.trades[n]
                row == view.rawTrades[n]
            IN /\ t.confidence = 5
               /\ t.strategy = "Manual"
               /\ t.broker = view.broker
               /\ t.notes = "Imported via Tradebook CSV"
               /\ t.segment = IF row.segment = "" THEN "Equity"
                              ELSE row.segment
               /\ t.date = row.date /\ t.symbol = row.symbol
               /\ t.entryPrice = row.entryPrice
               /\ t.exitPrice = row.exitPrice
               /\ t.quantity = row.quantity /\ t.pnl = row.pnl

\* Three rows for Fyers, the second with no segment: three trades in the
\* rows' order, the second in 'Equity', the others as parsed.
C20_Witness ==
    /\ view.k = "parsed" /\ view.broker = "Fyers"
    /\ Len(view.rawTrades) = 3
    /\ [n \in 1..3 |-> view.rawTrades[n].segment] = <<"F&O", "", "Equity">>
    /\ [n \in 1..3 |-> view.trades[n].segment] = <<"F&O", "Equity", "Equity">>
    /\ [n \in 1..3 |-> view.trades[n].symbol] = <<"INFY", "tcs", "TCS">>

-----------------------------------------------------------------------------
(* Properties of the import, the webhook and the AI calls *)

\* C21: an import that finds no complete round trip is a valid outcome: the
\* step that ends it leaves the collection and the store unchanged, starts
\* no store call, sends nothing to the webhook and reports no failure.
C21_EmptyImportNotAFailure ==
    [][(ui.processing /\ ~ui'.processing /\ ui'.statusMsg = "import_none") =>
            /\ trades' = trades /\ db' = db
            /\ ops' = ops /\ posts' = posts
            /\ StatusType(ui'.statusMsg) # "error"]_vars

\* The quantity of the orders of a side and symbol in a tradebook.
OrderedQty(csv, side, symbol) ==
    SumSeq([n \in 1..Len(csv) |->
                IF csv[n].side = side /\ csv[n].symbol = symbol
                THEN csv[n].quantity ELSE 0])

\* The quantity of the emitted trades of a symbol.
MatchedQty(ts, symbol) ==
    SumSeq([n \in 1..Len(ts) |->
                IF ts[n].symbol = symbol THEN ts[n].quantity ELSE 0])

\* C22: quantity conservation of the matcher: per symbol, the quantity of
\* the emitted trades and the quantity left open add up to the quantity
\* ordered, on the buy side and on the sell side; the open remainder is
\* what was ordered less what was matched and is never negative, so that no
\* quantity is matched twice.
C22_QuantityConserved ==
    view.k = "matched" =>
        \A symbol \in {"TCS", "INFY"} :
            /\ OrderedQty(view.csv, "BUY", symbol)
                    - MatchedQty(view.trades, symbol) >= 0
            /\ OrderedQty(view.csv, "SELL", symbol)
                    - MatchedQty(view.trades, symbol) >= 0

\* FIFO matching of an incoming order against the resting orders: the
\* oldest resting order of the same symbol and the opposite side first, for
\* the smaller of the two remaining quantities; what is left of the
\* incoming order rests.  Gives <<resting orders, emitted rows>>.
RECURSIVE FifoMatch(_, _, _)
FifoMatch(resting, o, out) ==
    LET opp == {i \in 1..Len(resting) :
                    resting[i].symbol = o.symbol /\ resting[i].side # o.side}
    IN IF o.quantity = 0 THEN <<resting, out>>
       ELSE IF opp = {} THEN <<Append(resting, o), out>>
       ELSE LET i == CHOOSE j \in opp : \A m \in opp : j <= m
                q == IF resting[i].quantity <= o.quantity
                     THEN resting[i].quantity ELSE o.quantity
                row == RawRow(o.time, o.symbol, resting[i].price, o.price, q,
                              (o.price - resting[i].price) * q, "Equity")
                rest == IF resting[i].quantity = q THEN RemoveAt(resting, i)
                        ELSE [resting EXCEPT ![i].quantity = @ - q]
            IN FifoMatch(rest, [o EXCEPT !.quantity = @ - q],
                         Append(out, row))

RECURSIVE FifoFrom(_, _, _)
FifoFrom(resting, csv, out) ==
    IF csv = <<>> THEN out
    ELSE LET step == FifoMatch(resting, csv[1], out)
         IN FifoFrom(step[1], Tail(csv), step[2])

\* The rows FIFO matching emits for a tradebook of buys followed by sells;
\* orders still resting at the end emit nothing.
FifoRows(csv) == FifoFrom(<<>>, csv, <<>>)

\* C23: the matcher pairs orders FIFO per symbol: the trades returned for a
\* tradebook are the FIFO matches, in order: quantity the smaller remaining
\* quantity, entry the resting leg, exit and date the liquidating leg, and
\* nothing for orders left unmatched (Buy 5@100, Buy 5@105, Sell 8@120
\* gives qty 5 pnl 100 and qty 3 pnl 45; the open 2 are dropped).
C23_FifoMatches ==
    view.k = "matched" =>
        LET rows == FifoRows(view.csv)
        IN /\ Len(view.trades) = Len(rows)
           /\ \A n \in 1..Len(rows) :
                /\ view.trades[n].symbol = rows[n].symbol
                /\ view.trades[n].date = rows[n].date
                /\ view.trades[n].entryPrice = rows[n].entryPrice
                /\ view.trades[n].exitPrice = rows[n].exitPrice
                /\ view.trades[n].quantity = rows[n].quantity
                /\ view.trades[n].pnl = rows[n].pnl

\* The spec's example answered as the spec has it.
FifoExampleAnswered ==
    /\ view.k = "matched"
    /\ Len(view.csv) = 3
    /\ [n \in 1..Len(view.trades) |->
            <<view.trades[n].entryPrice, view.trades[n].quantity,
              view.trades[n].exitPrice, view.trades[n].pnl>>]
         = << <<100, 5, 120, 100>>, <<105, 3, 120, 45>> >>
    /\ C23_FifoMatches

\* C24: the webhook is fire-and-forget: a step attempts at most one POST,
\* and only as the rest of an addTrade or importTrades call (never of an
\* update) made with a webhook URL configured, with exactly that call's
\* trades, once they are in the store and in the in-memory collection; the
\* step that posts is the one that ends the call, so no call posts twice.
C24_WebhookAfterWrite ==
    [][posts' # posts =>
          /\ Len(posts') = Len(posts) + 1
          /\ SubSeq(posts', 1, Len(posts)) = posts
          /\ ops # <<>> /\ ops' = Tail(ops)
          /\ ops[1].fn \in {"addTrade", "importTrades"}
          /\ ops[1].sheet # ""
          /\ posts'[Len(posts')] = [i \in 1..Len(ops[1].recs) |->
                                        ops[1].recs[i].id]
          /\ Ids(ops[1].recs) \subseteq Ids(trades')
          /\ Ids(ops[1].recs) \subseteq DOMAIN db']_vars

\* The texts analyzeTrade answers with.
FeedbackTexts(client) ==
    IF client THEN {"analysis", "Error generating analysis."}
    ELSE {"AI Analysis Unavailable"}

\* C25: AI feedback is never fatal to a manual entry: the step that ends
\* the analysis of a submitted trade calls addTrade with that trade, its
\* aiAnalysis a text (the placeholder 'AI Analysis Unavailable' when no
\* credentials are configured, the analysis or the error placeholder
\* otherwise), shows the text and ends the busy state; the form is busy
\* only while an analysis is in flight.
C25_AiNeverFatal ==
    /\ [][(tasks # <<>> /\ tasks[1].k = "analyze" /\ tasks' = Tail(tasks)) =>
            /\ Len(ops') = Len(ops) + 1
            /\ LET call == ops'[Len(ops')]
               IN /\ call.fn = "addTrade"
                  /\ call.recs = <<[tasks[1].trade EXCEPT
                                        !.aiAnalysis = ui'.feedback]>>
            /\ ui'.feedback \in FeedbackTexts(ai)
            /\ ~ui'.loading]_vars
    /\ [](page = "new-trade" =>
            (ui.loading <=> \E i \in 1..Len(tasks) : tasks[i].k = "analyze"))

\* A trade entered while the service call failed is in the collection, with
\* the error placeholder as its analysis, and the form is free again.
C25_Witness ==
    /\ page = "new-trade"
    /\ ~ui.loading
    /\ ui.feedback = "Error generating analysis."
    /\ \E n \in 1..Len(trades) :
            /\ trades[n].id = ManualId(0)
            /\ trades[n].aiAnalysis = "Error generating analysis."

-----------------------------------------------------------------------------
(* Properties of the journal's records *)

\* C26: after any sequence of entries, imports, syncs and edits, the
\* confidence of every trade of the collection is an integer in [1, 10].
C26_ConfidenceInRange ==
    \A n \in 1..Len(trades) : trades[n].confidence \in 1..10

\* C27: updateTrade and updateTradesBulk replace and nothing else: the step
\* that applies a call to the collection replaces exactly the records whose
\* id matches a supplied record, by that record, and leaves every other
\* record, the number of records and their order as they were; the step
\* that writes a call to the store adds no record whose id is absent from
\* the collection.
C27_ReplaceOnly ==
    /\ [][(/\ ops # <<>> /\ ops' = Tail(ops)
            /\ ops[1].st # "pending" /\ ops[1].fn \in UpdateFns) =>
            /\ Len(trades') = Len(trades)
            /\ \A n \in 1..Len(trades) :
                 IF ops[1].st = "fail"
                       \/ trades[n].id \notin Ids(ops[1].recs)
                 THEN trades'[n] = trades[n]
                 ELSE /\ trades'[n].id = trades[n].id
                      /\ trades'[n] \in Range(ops[1].recs)]_vars
    /\ [][(db' # db /\ ops[FirstPending].fn \in UpdateFns) =>
            DOMAIN db' \subseteq DOMAIN db \cup Ids(trades)]_vars

\* C28: two updates of one trade that were in flight together and were both
\* written leave the collection and the store with the same record: on the
\* step that completes the second of them, with no further call for that id
\* in flight, every record of the collection with that id is the record the
\* store holds.
C28_UpdatesConverge ==
    [][(/\ ops # <<>> /\ ops' = Tail(ops)
        /\ ops[1].fn \in UpdateFns /\ ops[1].st = "ok"
        /\ outcome.fn \in UpdateFns /\ outcome.st = "ok") =>
            \A id \in outcome.overlap \cap Ids(ops[1].recs) :
                (\A j \in 2..Len(ops) : id \notin Ids(ops[j].recs)) =>
                    /\ id \in DOMAIN db'
                    /\ \A n \in 1..Len(trades') :
                         trades'[n].id = id => trades'[n] = db'[id]]_vars

\* Reached: a journal edit and an AI-analysis write of the same trade were in
\* flight together and both are written; the first has completed, so the
\* collection holds its record while the store holds the second's, and the
\* second is about to complete.
C28_Witness ==
    /\ Len(ops) = 1
    /\ ops[1].fn \in UpdateFns /\ ops[1].st = "ok"
    /\ outcome.fn \in UpdateFns /\ outcome.st = "ok"
    /\ {outcome.then, ops[1].then} = {"saveEdit", "runAnalysis"}
    /\ \E n \in 1..Len(trades) :
         /\ trades[n].id \in outcome.overlap \cap Ids(ops[1].recs)
         /\ trades[n].id \in DOMAIN db
         /\ trades[n] # db[trades[n].id]

\* The step on which a sync of broker b finishes with its import fulfilled.
SyncFinishes(b) ==
    /\ ops # <<>> /\ ops' = Tail(ops)
    /\ ops[1].st # "pending"
    /\ ops[1].then = "sync" /\ ops[1].broker = b
    /\ outcome'.promise = "fulfilled"

\* C29: a finishing sync of broker b changes only b's lastSync: every other
\* field of b and every other broker are, in the list and in the store, what
\* they were just before the sync finished, so changes made during the sync
\* stay; and the list always holds the four brokers once each.
C29_SyncChangesOnlyLastSync ==
    /\ [][\A b \in BrokerNames : SyncFinishes(b) =>
            /\ brokers' = MapBroker(brokers, b,
                            [FindBroker(brokers, b) EXCEPT !.lastSync = now])
            /\ dbBrokers' = SaveBroker(dbBrokers, FindBroker(brokers', b))]_vars
    /\ [](/\ Len(brokers) = Len(INITIAL_BROKERS_DEFAULT)
          /\ \A n \in 1..Len(brokers) :
               brokers[n].name = INITIAL_BROKERS_DEFAULT[n].name)

\* C30: a started CSV import ends its busy state: processing is set, and
\* activeBroker kept, only while a file read or parse is in flight whose end
\* clears them; with none in flight the import buttons are enabled again.
C30_ImportBusyEnds ==
    page = "brokers" =>
        (ui.processing => \E i \in 1..Len(tasks) : tasks[i].k = "parse")

=============================================================================
